---------------------------- MODULE Spec2Model ----------------------------
(***************************************************************************)
(* The OMINO MIDI file reader of midi_visualizer.jsx (the MidiFile         *)
(* constructor and the methods addMidiFileMethods installs), as a state    *)
(* machine over the bytes of one file, followed by the createBpmMap call   *)
(* of createVisualizer on the file read; then createVisualizer as a whole, *)
(* from the click on Create to pb.stop(), over the files of the list, with *)
(* the clicks on Cancel that the updates of the window deliver.            *)
(*                                                                         *)
(* Numbers.  A byte, an offset, a length or a tempo is a natural number,   *)
(* or NaN (what charCodeAt yields past the end of the string and what      *)
(* arithmetic makes of it).  timeDivision is the pair n/d, because         *)
(* "timeDivision /= 2" may leave a fraction.  A time in seconds is kept    *)
(* as the exact numerator of the sum getTime computes,                     *)
(*      seconds = num / (timeDivision.n * 1000000),                        *)
(*      num     = SUM microsecondsPerQuarterNote * deltaTicks * d,         *)
(* and a time in beats as  beats = num / timeDivision.n, num = ticks * d.  *)
(* Both are records [k, v]; the rounding of IEEE doubles is not modelled.  *)
(***************************************************************************)
EXTENDS Integers, Sequences, FiniteSets, TLC

VARIABLES
    file,                 \* this.file: the bytes read from disk
    halfSpeed,            \* midiWndw.halfSpeedCheckbox.value
    isCanceled,           \* midiWndw.pb.isCanceled
    pc,                   \* position of the constructor
    isMidiFlag,           \* this.isMidi
    format,               \* this.format
    trackCount,           \* this.trackCount
    timeDivision,         \* this.timeDivision, as n/d
    framesPerSecond,      \* this.framesPerSecond (Undefined unless set)
    ticksPerBeat,         \* this.ticksPerBeat (Undefined unless set)
    microsecondsPerQuarterNote,
    timeSignature,        \* the four this.timeSignature... fields
    chunkCount, noteOns, noteOffs,
    heap,                 \* the Note objects, by allocation order
    notes,                \* this.notes: references into heap
    channels,             \* this.channels: sparse array index -> Channel
    tracks,               \* this.tracks
    tempoMap,             \* this.tempoMap
    timeSignatureMap,     \* this.timeSignatureMap
    offset,               \* var offset of the chunk loop
    currentTrack,         \* the global currentTrack
    trk,                  \* the locals of one MTrk chunk's event loop
    bpmChangeThreshold,   \* midiCustomSettings.bpmChangeThreshold
    bpmMap,               \* var bpmMap of createVisualizer
    midiConfigs,          \* the global midiConfigs: the bytes of each file
    midiCustomSettings,   \* bpmBasedSpeed and bpmSourceIndex of the settings
    parsedMidiFiles,      \* var parsedMidiFiles of createVisualizer
    latestMidiNote,       \* var latestMidiNote of createVisualizer
    project,              \* the comps and layers added to app.project
    createCancelBtn,      \* midiWndw.pb.createCancelBtn: text and onClick
    cv,                   \* position and loop counters of createVisualizer
    tempoAt               \* a call of getTempo: its argument and its result

vars == <<file, halfSpeed, isCanceled, pc, isMidiFlag, format, trackCount,
          timeDivision, framesPerSecond, ticksPerBeat,
          microsecondsPerQuarterNote, timeSignature, chunkCount, noteOns,
          noteOffs, heap, notes, channels, tracks, tempoMap,
          timeSignatureMap, offset, currentTrack, trk, bpmChangeThreshold,
          bpmMap, midiConfigs, midiCustomSettings, parsedMidiFiles,
          latestMidiNote, project, createCancelBtn, cv, tempoAt>>

\* what there is besides the file being read: the variables of
\* createVisualizer, and the call of getTempo
runVars == <<midiConfigs, midiCustomSettings, parsedMidiFiles, latestMidiNote,
             project, createCancelBtn, cv, tempoAt>>

-----------------------------------------------------------------------------
(* JavaScript numbers *)

NaN == -1
Undefined == -2

\* A time value: a number (k = "num", v its numerator), NaN, +/-Infinity
\* (k = "inf", v its sign) or an unset property (k = "undef").
Num(n) == [k |-> "num", v |-> n]
NaNNum == [k |-> "nan", v |-> 0]
Inf(sign) == [k |-> "inf", v |-> sign]
Undef == [k |-> "undef", v |-> 0]

IsNum(a) == a.k = "num"

NumNeg(a) == IF a.k \in {"num", "inf"} THEN [k |-> a.k, v |-> 0 - a.v] ELSE NaNNum

NumAdd(a, b) ==
    IF a.k = "num" /\ b.k = "num" THEN Num(a.v + b.v)
    ELSE IF a.k \in {"nan", "undef"} \/ b.k \in {"nan", "undef"} THEN NaNNum
    ELSE IF a.k = "inf" /\ b.k = "inf" THEN (IF a.v = b.v THEN a ELSE NaNNum)
    ELSE IF a.k = "inf" THEN a ELSE b

NumSub(a, b) == NumAdd(a, NumNeg(b))

\* a < b: false as soon as one side is NaN
NumLess(a, b) ==
    IF a.k = "num" /\ b.k = "num" THEN a.v < b.v
    ELSE IF a.k \in {"nan", "undef"} \/ b.k \in {"nan", "undef"} THEN FALSE
    ELSE IF a.k = "inf" /\ b.k = "inf" THEN a.v < b.v
    ELSE IF a.k = "inf" THEN a.v < 0 ELSE b.v > 0

\* x + y, x < y on offsets that may be NaN
OffAdd(x, y) == IF x = NaN \/ y = NaN THEN NaN ELSE x + y
OffLess(x, y) == x # NaN /\ y # NaN /\ x < y

\* if (x): neither 0 nor NaN
Truthy(x) == x # NaN /\ x # 0

-----------------------------------------------------------------------------
(* The string this.file *)

charCodeAt(s, pos) == IF pos \in 0..(Len(s) - 1) THEN s[pos + 1] ELSE NaN

Clamp(x, n) == IF x = NaN \/ x < 0 THEN 0 ELSE IF x > n THEN n ELSE x

substring(s, a, b) ==
    LET ca == Clamp(a, Len(s))
        cb == Clamp(b, Len(s))
        lo == IF ca < cb THEN ca ELSE cb
        hi == IF ca < cb THEN cb ELSE ca
    IN  SubSeq(s, lo + 1, hi)

MThd == <<77, 84, 104, 100>>
MTrk == <<77, 84, 114, 107>>

isMidi(s) == substring(s, 0, 4) = MThd

getByte(s, off) == charCodeAt(s, off)

getShort(s, off) ==
    LET b0 == charCodeAt(s, off)
        b1 == charCodeAt(s, off + 1)
    IN  IF b0 = NaN \/ b1 = NaN THEN NaN ELSE b0 * 256 + b1

getInt24(s, off) ==
    LET b0 == charCodeAt(s, off)
        b1 == charCodeAt(s, off + 1)
        b2 == charCodeAt(s, off + 2)
    IN  IF b0 = NaN \/ b1 = NaN \/ b2 = NaN THEN NaN
        ELSE b0 * 65536 + b1 * 256 + b2

getLong(s, off) ==
    LET b0 == charCodeAt(s, off)
        b1 == charCodeAt(s, off + 1)
        b2 == charCodeAt(s, off + 2)
        b3 == charCodeAt(s, off + 3)
    IN  IF b0 = NaN \/ b1 = NaN \/ b2 = NaN \/ b3 = NaN THEN NaN
        ELSE b0 * 16777216 + b1 * 65536 + b2 * 256 + b3

\* b & 0x80 and b & 0x7f; NaN & x is 0
HighBit(b) == b # NaN /\ b >= 128
Low7(b) == IF b = NaN THEN 0 ELSE b % 128

RECURSIVE getVarLenFrom(_, _, _)
getVarLenFrom(s, off, result) ==
    IF HighBit(charCodeAt(s, off))
    THEN getVarLenFrom(s, off + 1, result + 1)
    ELSE result

\* mutant of getVarLen: every quantity is taken to be one byte long
getVarLenOne(s, off) == 1

getVarLen(s, off) == getVarLenFrom(s, off, 1)

RECURSIVE getVarValFrom(_, _, _)
getVarValFrom(s, off, result) ==
    LET b == charCodeAt(s, off)
        r == result * 128 + Low7(b)
    IN  IF HighBit(b) THEN getVarValFrom(s, off + 1, r) ELSE r

\* mutant of getVarVal: the continuation bit is ignored and only the first
\* byte is read
getVarValOneByte(s, off) == Low7(charCodeAt(s, off))

getVarVal(s, off) == getVarValFrom(s, off, 0)

getVarString(s, off) ==
    LET len == getVarVal(s, off)
        lenlen == getVarLen(s, off)
    IN  substring(s, off + lenlen, off + lenlen + len)

\* mutant of getEventLength: the sub-type byte of a meta event is not
\* counted
getEventLengthMetaShort(s, status, off) ==
    LET statusTop == status \div 16
    IN  IF statusTop \in {8, 9, 10, 11, 14} THEN 2
        ELSE IF statusTop \in {12, 13} THEN 1
        ELSE IF status = 255 \/ status = 240
             THEN getVarVal(s, off + 1) + getVarLen(s, off + 1)
        ELSE NaN

\* mutant of getEventLength: every channel event has 2 data bytes
getEventLengthAllTwo(s, status, off) ==
    LET statusTop == status \div 16
    IN  IF statusTop \in {8, 9, 10, 11, 12, 13, 14} THEN 2
        ELSE IF status = 255 \/ status = 240
             THEN getVarVal(s, off + 1) + getVarLen(s, off + 1) + 1
        ELSE NaN

\* undefined (here NaN: it is only ever added to an offset) for a status with
\* no case
getEventLength(s, status, off) ==
    LET statusTop == status \div 16
    IN  IF statusTop \in {8, 9, 10, 11, 14} THEN 2
        ELSE IF statusTop \in {12, 13} THEN 1
        ELSE IF status = 255 \/ status = 240
             THEN getVarVal(s, off + 1) + getVarLen(s, off + 1) + 1
        ELSE NaN

-----------------------------------------------------------------------------
(* The tempo map and getTime *)

Tempo(tick, mpqn) == [tick |-> tick, microsecondsPerQuarterNote |-> mpqn]

addTempo(map, tick, mpqn) == Append(map, Tempo(tick, mpqn))

\* getTempo(tick): the loop of lines 443-453 from the entry i on (counted
\* from 1), result being what it has so far; a comparison with NaN is false
RECURSIVE getTempoFrom(_, _, _, _)
getTempoFrom(map, tick, i, result) ==
    IF i > Len(map) THEN result
    ELSE LET tempo == map[i]
             after == tick # NaN /\ tempo.tick # NaN /\ tick > tempo.tick
             upToNext == /\ i + 1 <= Len(map)
                         /\ map[i + 1].tick # NaN
                         /\ tick <= map[i + 1].tick
         IN  IF after /\ upToNext THEN tempo.microsecondsPerQuarterNote
             ELSE getTempoFrom(map, tick, i + 1,
                               tempo.microsecondsPerQuarterNote)

getTempo(map, tick) == getTempoFrom(map, tick, 1, 500000)

\* (currentMicrosecondsPerQuarterNote * deltaTickCounter) / this.timeDivision
\* / 1000000, in units of 1 / (td.n * 1000000) s
\* mutant of SecondsOf: the division is the header's, however halfSpeed is
\* set
SecondsOfWhole(mpqn, deltaTicks, td) ==
    IF mpqn = NaN \/ td.n = NaN THEN NaNNum
    ELSE LET p == mpqn * deltaTicks
         IN  IF td.n # 0 THEN Num(p)
             ELSE IF p = 0 THEN NaNNum
             ELSE Inf(IF p > 0 THEN 1 ELSE -1)

SecondsOf(mpqn, deltaTicks, td) ==
    IF mpqn = NaN \/ td.n = NaN THEN NaNNum
    ELSE LET p == mpqn * deltaTicks * td.d
         IN  IF td.n # 0 THEN Num(p)
             ELSE IF p = 0 THEN NaNNum
             ELSE Inf(IF p > 0 THEN 1 ELSE -1)

\* the tick the while loop of getTime advances tickCounter to
NextTickCounter(map, index, targetTick) ==
    IF index < Len(map)
    THEN IF index + 1 >= Len(map) THEN targetTick
         ELSE IF targetTick <= map[index + 2].tick THEN targetTick
         ELSE map[index + 2].tick
    ELSE targetTick

\* mutant of getTimeLoop: a tempo entry takes effect one interval late
RECURSIVE getTimeLoopLate(_, _, _, _, _, _, _)
getTimeLoopLate(map, td, targetTick, seconds, current, prevTickCounter, index) ==
    LET inMap == index < Len(map)
        cur == IF inMap THEN map[index + 1].microsecondsPerQuarterNote
               ELSE current
        tickCounter == NextTickCounter(map, index, targetTick)
        sec == NumAdd(seconds,
                      SecondsOf(current, tickCounter - prevTickCounter, td))
        idx == IF inMap THEN index + 1 ELSE index
    IN  IF tickCounter < targetTick
        THEN getTimeLoopLate(map, td, targetTick, sec, cur, tickCounter, idx)
        ELSE sec

RECURSIVE getTimeLoop(_, _, _, _, _, _, _)
getTimeLoop(map, td, targetTick, seconds, current, prevTickCounter, index) ==
    LET inMap == index < Len(map)
        cur == IF inMap THEN map[index + 1].microsecondsPerQuarterNote
               ELSE current
        tickCounter == NextTickCounter(map, index, targetTick)
        sec == NumAdd(seconds, SecondsOf(cur, tickCounter - prevTickCounter, td))
        idx == IF inMap THEN index + 1 ELSE index
    IN  IF tickCounter < targetTick
        THEN getTimeLoop(map, td, targetTick, sec, cur, tickCounter, idx)
        ELSE sec

getTime(map, td, targetTick) ==
    IF 0 < targetTick
    THEN getTimeLoop(map, td, targetTick, Num(0), 500000, 0, 0)
    ELSE Num(0)

-----------------------------------------------------------------------------
(* createBpmMap *)

\* A BPM value is kept in units of 1 / amountOfDecimals, or is NaN or Infinity.
Infinity == -3

\* midiCustomSettings.bpmChangeThreshold = scaled / 10^decimalPlaces, with
\* decimalPlaces what countDecimals() finds in its decimal notation
Threshold(decimalPlaces, scaled) ==
    [decimalPlaces |-> decimalPlaces, scaled |-> scaled]

\* this.bpmChangeThreshold = 0.5
DefaultThreshold == Threshold(1, 5)

\* Math.pow(10, decimalPlaces)
amountOfDecimals(thr) == 10 ^ thr.decimalPlaces

BPM(second, bpm, mpqn) ==
    [second |-> second, bpm |-> bpm, microsecondsPerQuarterNote |-> mpqn]

\* Math.round(60000000.0 / mpqn * amount), Math.round rounding halves up
RoundedBpm(mpqn, amount) ==
    IF mpqn = NaN THEN NaN
    ELSE IF mpqn = 0 THEN Infinity
    ELSE LET q == 60000000 \div mpqn
             r == 60000000 % mpqn
         IN  q * amount + ((2 * r * amount + mpqn) \div (2 * mpqn))

\* Math.abs(thresholdNext - thresholdCurrent) >= bpmChangeThreshold
AbsDiffAtLeast(next, current, thr) ==
    IF next = NaN \/ current = NaN THEN FALSE
    ELSE IF next = Infinity /\ current = Infinity THEN FALSE
    ELSE IF next = Infinity \/ current = Infinity THEN TRUE
    ELSE (IF next >= current THEN next - current ELSE current - next)
             >= thr.scaled

\* mutant of KeepsTempo: the comparison is against the previous entry of the
\* tempo map, kept or not
KeepsTempoAgainstPrevious(map, thr, i, kept) ==
    \/ i = 1
    \/ AbsDiffAtLeast(
           RoundedBpm(map[i].microsecondsPerQuarterNote, amountOfDecimals(thr)),
           RoundedBpm(map[i - 1].microsecondsPerQuarterNote, amountOfDecimals(thr)),
           thr)

\* the test of line 1073, for the entry i of the tempo map (counted from 1)
\* and the entries kept so far
KeepsTempo(map, thr, i, kept) ==
    \/ i = 1
    \/ AbsDiffAtLeast(
           RoundedBpm(map[i].microsecondsPerQuarterNote, amountOfDecimals(thr)),
           kept[Len(kept)].bpm,
           thr)

RECURSIVE createBpmMapFrom(_, _, _, _, _, _)
createBpmMapFrom(map, td, thr, canceled, i, kept) ==
    IF i > Len(map) THEN kept
    ELSE LET mpqn == map[i].microsecondsPerQuarterNote
             second == getTime(map, td, map[i].tick)
             pushed == IF KeepsTempo(map, thr, i, kept)
                       THEN Append(kept, BPM(second,
                                             RoundedBpm(mpqn, amountOfDecimals(thr)),
                                             mpqn))
                       ELSE kept
         IN  IF canceled THEN pushed
             ELSE createBpmMapFrom(map, td, thr, canceled, i + 1, pushed)

createBpmMap(map, td, thr, canceled) ==
    createBpmMapFrom(map, td, thr, canceled, 1, <<>>)

-----------------------------------------------------------------------------
(* Notes, channels and tracks *)

\* mutant of Note: a note is made with the durations 0
NoteZeroDuration(time, beats, channel, pitch, vel) ==
    [time |-> time, beats |-> beats, channel |-> channel, pitch |-> pitch,
     vel |-> vel, durTime |-> Num(0), durBeats |-> Num(0)]

Note(time, beats, channel, pitch, vel) ==
    [time |-> time, beats |-> beats, channel |-> channel, pitch |-> pitch,
     vel |-> vel, durTime |-> Undef, durBeats |-> Undef]

\* Math.floor(index / 16) and index % 16
TrackIndexOf(index) == IF index = NaN THEN NaN ELSE index \div 16
MidiChannelOf(index) == IF index = NaN THEN NaN ELSE index % 16

Channel(index) ==
    [index |-> index, trackIndex |-> TrackIndexOf(index),
     midiChannel |-> MidiChannelOf(index), notes |-> <<>>,
     hasInsrument |-> FALSE, insrument |-> <<>>]

\* new Track(): the index parameter is never passed
Track(index) ==
    [index |-> index, hasName |-> FALSE, name |-> <<>>, channels |-> <<>>]

\* The object store the three collections share: st is
\* [heap, notes, channels, tracks, noteOns, noteOffs, threw].
findChannel(st, index) ==
    IF index \in DOMAIN st.channels THEN st
    ELSE LET withChannel ==
                 [st EXCEPT !.channels = index :> Channel(index) @@ st.channels]
             t == TrackIndexOf(index)
         IN  IF t \in 0..(Len(st.tracks) - 1)
             THEN [withChannel EXCEPT
                      !.tracks[t + 1].channels = Append(@, index)]
             ELSE [withChannel EXCEPT !.threw = TRUE]

\* note2.vel && note2.pitch == pitch
IsNoteOnOf(note2, pitch) ==
    Truthy(note2.vel) /\ note2.pitch # NaN /\ note2.pitch = pitch

\* mutant of FindNoteOn: the nearest note-on of the channel, of any pitch
FindNoteOnAnyPitch(hp, chanNotes, i, pitch) ==
    LET found == {j \in 1..i : Truthy(hp[chanNotes[j]].vel)}
    IN  IF found = {} THEN 0 ELSE CHOOSE j \in found : \A k \in found : k <= j

\* mutant of FindNoteOn: the earliest note-on of the pitch, not the nearest
FindNoteOnFirst(hp, chanNotes, i, pitch) ==
    LET found == {j \in 1..i : IsNoteOnOf(hp[chanNotes[j]], pitch)}
    IN  IF found = {} THEN 0 ELSE CHOOSE j \in found : \A k \in found : j <= k

\* the loop "for (i = length - 2; i >= 0; i--)" of addNote: the position in
\* the channel's notes of the note that gets the duration, 0 when none does
RECURSIVE FindNoteOn(_, _, _, _)
FindNoteOn(hp, chanNotes, i, pitch) ==
    IF i < 1 THEN 0
    ELSE IF IsNoteOnOf(hp[chanNotes[i]], pitch) THEN i
    ELSE FindNoteOn(hp, chanNotes, i - 1, pitch)

addNote(st, time, beats, channel, pitch, vel) ==
    LET id == Len(st.heap) + 1
        pushed == [st EXCEPT
                      !.heap = Append(@, Note(time, beats, channel, pitch, vel)),
                      !.notes = Append(@, id)]
        found == findChannel(pushed, channel)
    IN  IF found.threw THEN found
        ELSE LET inChannel ==
                     [found EXCEPT !.channels[channel].notes = Append(@, id)]
                 chanNotes == inChannel.channels[channel].notes
                 i == FindNoteOn(inChannel.heap, chanNotes,
                                 Len(chanNotes) - 1, pitch)
             IN  IF Truthy(vel)
                 THEN [inChannel EXCEPT !.noteOns = @ + 1]
                 ELSE IF i = 0
                 THEN [inChannel EXCEPT !.noteOffs = @ + 1]
                 ELSE LET note2 == inChannel.heap[chanNotes[i]]
                      IN  [inChannel EXCEPT
                              !.noteOffs = @ + 1,
                              !.heap[chanNotes[i]].durTime =
                                  NumSub(time, note2.time),
                              !.heap[chanNotes[i]].durBeats =
                                  NumSub(beats, note2.beats)]

TimeSignature(tick, numerator, denominator, metronomeInterval, hdsn) ==
    [tick |-> tick, numerator |-> numerator, denominator |-> denominator,
     metronomeInterval |-> metronomeInterval,
     hemiDemiSemiNotesPerQuarterNote |-> hdsn, second |-> Num(0)]

addTimeSignatureAt(map, tick, numerator, denominator, metronomeInterval, hdsn) ==
    Append(map, TimeSignature(tick, numerator, denominator,
                              metronomeInterval, hdsn))

\* 1 << b: the shift count is b mod 32, a NaN count is 0
ShiftLeftOne(b) ==
    LET c == IF b = NaN THEN 0 ELSE b % 32
    IN  IF c = 31 THEN -2147483647 - 1 ELSE 2 ^ c

-----------------------------------------------------------------------------
(* The files decoded: a header chunk, then chunks laid out from a sequence  *)
(* of items, then the last bytes cut off.                                   *)

MaxItems == 4
MaxCut == 2

Short(n) == <<n \div 256, n % 256>>
Int24(n) == <<n \div 65536, (n \div 256) % 256, n % 256>>
Long(n) == <<n \div 16777216, (n \div 65536) % 256, (n \div 256) % 256, n % 256>>

RECURSIVE VlqHigh(_)
VlqHigh(n) == IF n = 0 THEN <<>> ELSE Append(VlqHigh(n \div 128), 128 + (n % 128))

\* the variable-length quantity of n
EncodeVLQ(n) == Append(VlqHigh(n \div 128), n % 128)

\* k: "on", "off", "tempo" (an event of the open MTrk chunk, or of a new one),
\* "T" (a new MTrk chunk) or "F" (a chunk of another type); d: the event's
\* delta time; v: its pitch or its tempo
Item(k, d, v) == [k |-> k, d |-> d, v |-> v]

Items ==
    {Item("on", 0, 60), Item("off", 0, 60), Item("off", 480, 60),
     Item("tempo", 0, 500000), Item("tempo", 0, 250000),
     Item("tempo", 480, 500000), Item("T", 0, 0), Item("F", 0, 0)}

\* further kinds of event, for the families of files below: "run" (two data
\* bytes and no status byte: running status), "bad" (the status byte v, which
\* getEventLength has no case for, and one data byte), "raw" (the bytes v)
EventBytes(it) ==
    EncodeVLQ(it.d) \o
    (CASE it.k = "on" -> <<144, it.v, 100>>
       [] it.k = "off" -> <<128, it.v, 64>>
       [] it.k = "tempo" -> <<255, 81, 3>> \o Int24(it.v)
       [] it.k = "run" -> <<it.v, 100>>
       [] it.k = "bad" -> <<it.v, 0>>
       [] it.k = "raw" -> it.v)

TrackChunk(events) == MTrk \o Long(Len(events)) \o events

\* a chunk of type "XFIH" whose data looks like a note-on event
ForeignChunk == <<88, 70, 73, 72>> \o Long(4) \o <<0, 144, 60, 100>>

RECURSIVE Layout(_, _, _, _)
Layout(items, i, open, events) ==
    LET closed == IF open THEN TrackChunk(events) ELSE <<>>
    IN  IF i > Len(items) THEN closed
        ELSE IF items[i].k = "T"
        THEN closed \o Layout(items, i + 1, TRUE, <<>>)
        ELSE IF items[i].k = "F"
        THEN closed \o ForeignChunk \o Layout(items, i + 1, FALSE, <<>>)
        ELSE Layout(items, i + 1, TRUE, events \o EventBytes(items[i]))

RECURSIVE CountTracks(_, _, _)
CountTracks(items, i, open) ==
    IF i > Len(items) THEN 0
    ELSE IF items[i].k = "T" THEN 1 + CountTracks(items, i + 1, TRUE)
    ELSE IF items[i].k = "F" THEN CountTracks(items, i + 1, FALSE)
    ELSE (IF open THEN 0 ELSE 1) + CountTracks(items, i + 1, TRUE)

RIFF == <<82, 73, 70, 70>>

HeaderChunk(magic, division, ntrks) ==
    magic \o Long(6) \o Short(1) \o Short(ntrks) \o Short(division)

FileOf(magic, division, items, cut) ==
    LET whole == HeaderChunk(magic, division, CountTracks(items, 1, FALSE))
                 \o Layout(items, 1, FALSE, <<>>)
    IN  SubSeq(whole, 1, Len(whole) - cut)

Cost(magic, cut) ==
    (IF magic = MThd THEN 0 ELSE 1) + (IF cut = 0 THEN 0 ELSE 1)

\* pbObj.createCancelBtn as ProgressBar() and pb.stop() leave it, and as
\* pb.start() leaves it
CreateButton == [text |-> "Create", onClick |-> "createVisualizer"]
CancelButton == [text |-> "Cancel", onClick |-> "cancel"]

\* MidiCustomSettings(): this.bpmBasedSpeed = true, this.bpmSourceIndex = 0
DefaultSettings == [bpmBasedSpeed |-> TRUE, bpmSourceIndex |-> 0]

\* getTempo has not been called
NoCall == [called |-> FALSE, tick |-> 0, result |-> 0]

\* createVisualizer is not running
NoRun ==
    /\ tempoAt = NoCall
    /\ midiConfigs = <<>>
    /\ midiCustomSettings = DefaultSettings
    /\ parsedMidiFiles = <<>>
    /\ latestMidiNote = Num(0)
    /\ project = <<>>
    /\ createCancelBtn = CreateButton
    /\ cv = [pc |-> "idle", i |-> 0, j |-> 0]

NoTrk ==
    [previousStatus |-> 0, chunkOffset |-> 0, chunkLength |-> 0,
     chunkEnd |-> 0, ticks |-> 0, midiChannelPrefix |-> 0, seconds |-> Num(0)]

\* the state before "new MidiFile(filePath)" runs on the bytes of f
Fresh(f, half, canceled) ==
    /\ file = f
    /\ halfSpeed = half
    /\ isCanceled = canceled
    /\ pc = "new"
    /\ isMidiFlag = FALSE
    /\ format = Undefined
    /\ trackCount = Undefined
    /\ timeDivision = [n |-> Undefined, d |-> 1]
    /\ framesPerSecond = Undefined
    /\ ticksPerBeat = Undefined
    /\ microsecondsPerQuarterNote = Undefined
    /\ timeSignature = <<Undefined, Undefined, Undefined, Undefined>>
    /\ chunkCount = 0
    /\ noteOns = 0
    /\ noteOffs = 0
    /\ heap = <<>>
    /\ notes = <<>>
    /\ channels = <<>>
    /\ tracks = <<>>
    /\ tempoMap = <<>>
    /\ timeSignatureMap = <<>>
    /\ offset = Undefined
    /\ currentTrack = Undefined
    /\ trk = NoTrk
    /\ bpmMap = <<>>
    /\ NoRun

Init ==
    /\ bpmChangeThreshold = DefaultThreshold
    /\ \E magic \in {MThd, RIFF}, cut \in 0..MaxCut :
           \E n \in 0..(MaxItems - Cost(magic, cut)) :
               \E items \in [1..n -> Items] :
                   Fresh(FileOf(magic, 480, items, cut), FALSE, FALSE)

\* Files whose event streams hold running status and a status byte without
\* a length (0xF4).
MaxStreamItems == 4

StreamItems ==
    {Item("on", 0, 60), Item("off", 0, 60), Item("run", 0, 60),
     Item("bad", 0, 244), Item("T", 0, 0), Item("F", 0, 0)}

InitStream ==
    /\ bpmChangeThreshold = DefaultThreshold
    /\ \E n \in 0..MaxStreamItems :
           \E items \in [1..n -> StreamItems] :
               Fresh(FileOf(MThd, 480, items, 0), FALSE, FALSE)

\* Files of one track: a tempo of 1000 microseconds at tick 0, then a
\* note-on whose delta time is any quantity up to MaxDelta; a chunk of another
\* type may follow.
MaxDelta == 16385

DeltaTempo == Item("tempo", 0, 1000)

InitVarLen ==
    /\ bpmChangeThreshold = DefaultThreshold
    /\ \E n \in 0..MaxDelta, tail \in {<<>>, <<Item("F", 0, 0)>>} :
           Fresh(FileOf(MThd, 480, <<DeltaTempo, Item("on", n, 60)>> \o tail, 0),
                 FALSE, FALSE)

\* Files of tempo events of 120.0, 120.3, 120.5, 121.0 and 125.0 BPM, read
\* under a threshold of 0.5 or of 1.
MaxBpmItems == 4

BpmItems ==
    {Item("tempo", 0, 500000), Item("tempo", 0, 498753),
     Item("tempo", 0, 497925), Item("tempo", 0, 495868),
     Item("tempo", 0, 480000), Item("F", 0, 0)}

BpmThresholds == {Threshold(1, 5), Threshold(0, 1)}

InitBpm ==
    /\ bpmChangeThreshold \in BpmThresholds
    /\ \E n \in 0..MaxBpmItems :
           \E items \in [1..n -> BpmItems] :
               Fresh(FileOf(MThd, 480, items, 0), FALSE, FALSE)

\* Files whose division field is E7 28: the high bit set, 25 frames per
\* second and 40 ticks per frame.
MaxFramesItems == 4

FramesDivision == 59176

FramesItems ==
    {Item("on", 0, 60), Item("off", 2, 60), Item("tempo", 0, 250000),
     Item("T", 0, 0), Item("F", 0, 0)}

InitFrames ==
    /\ bpmChangeThreshold = DefaultThreshold
    /\ \E n \in 0..MaxFramesItems :
           \E items \in [1..n -> FramesItems] :
               Fresh(FileOf(MThd, FramesDivision, items, 0), FALSE, FALSE)

\* Files decoded while another "new MidiFile" runs.
MaxSharedItems == 3

SharedItems == {Item("on", 0, 60), Item("T", 0, 0), Item("F", 0, 0)}

InitShared ==
    /\ bpmChangeThreshold = DefaultThreshold
    /\ \E n \in 0..MaxSharedItems :
           \E items \in [1..n -> SharedItems] :
               Fresh(FileOf(MThd, 480, items, 0), FALSE, FALSE)

\* Files read when the Cancel button may have been pressed during the
\* window update that precedes "new MidiFile" (line 791).
MaxCancelItems == 3

CancelItems ==
    {Item("on", 0, 60), Item("tempo", 0, 250000), Item("T", 0, 0),
     Item("F", 0, 0)}

InitCancel ==
    /\ bpmChangeThreshold = DefaultThreshold
    /\ \E canceled \in BOOLEAN, n \in 0..MaxCancelItems :
           \E items \in [1..n -> CancelItems] :
               Fresh(FileOf(MThd, 480, items, 0), FALSE, canceled)

\* Files whose header holds any format up to MaxFormat and a division of 0,
\* 1 or 480.
MaxFormat == 3
MaxHeaderItems == 2

HeaderItems == {Item("on", 0, 60), Item("off", 1, 60), Item("F", 0, 0)}

HeaderDivisions == {0, 1, 480}

\* the file FileOf makes, with the format field set to fmt
WithFormat(f, fmt) == [f EXCEPT ![9] = fmt \div 256, ![10] = fmt % 256]

InitHeader ==
    /\ bpmChangeThreshold = DefaultThreshold
    /\ \E fmt \in 0..MaxFormat, division \in HeaderDivisions,
          n \in 0..MaxHeaderItems :
           \E items \in [1..n -> HeaderItems] :
               Fresh(WithFormat(FileOf(MThd, division, items, 0), fmt),
                     FALSE, FALSE)

\* Files of division 480 or 481, read with the half speed box checked or
\* not.
MaxHalfItems == 4

HalfItems ==
    {Item("on", 0, 60), Item("off", 240, 60), Item("tempo", 0, 250000),
     Item("tempo", 240, 500000), Item("F", 0, 0)}

HalfDivisions == {480, 481}

InitHalf ==
    /\ bpmChangeThreshold = DefaultThreshold
    /\ \E half \in BOOLEAN, division \in HalfDivisions,
          n \in 0..MaxHalfItems :
           \E items \in [1..n -> HalfItems] :
               Fresh(FileOf(MThd, division, items, 0), half, FALSE)

\* Files whose notes are ended by a note-off of velocity 64, 0 or 127 or by
\* a note-on of velocity 0, on channel 0 or 1.
MaxOffItems == 4

OffItems ==
    {Item("on", 0, 60), Item("raw", 240, <<128, 60, 64>>),
     Item("raw", 240, <<144, 60, 0>>), Item("raw", 0, <<129, 60, 127>>),
     Item("raw", 0, <<128, 60, 0>>), Item("T", 0, 0), Item("F", 0, 0)}

InitOff ==
    /\ bpmChangeThreshold = DefaultThreshold
    /\ \E n \in 0..MaxOffItems :
           \E items \in [1..n -> OffItems] :
               Fresh(FileOf(MThd, 480, items, 0), FALSE, FALSE)

\* Files of channel events other than notes: polyphonic pressure (0xA0),
\* controller (0xB0), pitch bend (0xE0), program change (0xC0) and channel
\* pressure (0xD0), among note-ons.
MaxChanItems == 4

ChanItems ==
    {Item("raw", 0, <<160, 60, 1>>), Item("raw", 0, <<176, 7, 100>>),
     Item("raw", 0, <<224, 0, 64>>), Item("raw", 0, <<192, 5>>),
     Item("raw", 0, <<208, 9>>), Item("on", 0, 60), Item("F", 0, 0)}

InitChan ==
    /\ bpmChangeThreshold = DefaultThreshold
    /\ \E n \in 0..MaxChanItems :
           \E items \in [1..n -> ChanItems] :
               Fresh(FileOf(MThd, 480, items, 0), FALSE, FALSE)

\* Files of system exclusive events among note-ons: F0 03 43 12 F7 (three
\* bytes, closed by F7) and the escape F7 01 00.
MaxSysExItems == 4

SysExItems ==
    {Item("raw", 0, <<240, 3, 67, 18, 247>>), Item("raw", 0, <<247, 1, 0>>),
     Item("on", 0, 60), Item("F", 0, 0)}

InitSysEx ==
    /\ bpmChangeThreshold = DefaultThreshold
    /\ \E n \in 0..MaxSysExItems :
           \E items \in [1..n -> SysExItems] :
               Fresh(FileOf(MThd, 480, items, 0), FALSE, FALSE)

\* Files of meta events among note-ons: a text event "Hi" (sub-type 0x01),
\* end of track (0x2F, no payload), a sequencer-specific event (0x7F), a
\* track name "A" (0x03) and a tempo (0x51).
MaxMetaItems == 4

MetaItems ==
    {Item("raw", 0, <<255, 1, 2, 72, 105>>), Item("raw", 0, <<255, 47, 0>>),
     Item("raw", 0, <<255, 127, 2, 0, 1>>), Item("raw", 0, <<255, 3, 1, 65>>),
     Item("tempo", 0, 250000), Item("on", 0, 60), Item("F", 0, 0)}

InitMeta ==
    /\ bpmChangeThreshold = DefaultThreshold
    /\ \E n \in 0..MaxMetaItems :
           \E items \in [1..n -> MetaItems] :
               Fresh(FileOf(MThd, 480, items, 0), FALSE, FALSE)

\* Files of division 480 whose tempo events carry 0 or 500000 microseconds,
\* among notes at tick 0 and later.
MaxTempoItems == 4

TempoItems ==
    {Item("on", 0, 60), Item("on", 480, 60), Item("off", 480, 60),
     Item("tempo", 0, 0), Item("tempo", 0, 500000), Item("F", 0, 0)}

InitTempo ==
    /\ bpmChangeThreshold = DefaultThreshold
    /\ \E n \in 0..MaxTempoItems :
           \E items \in [1..n -> TempoItems] :
               Fresh(FileOf(MThd, 480, items, 0), FALSE, FALSE)

\* Files of notes of the pitches 60 and 62 on channel 0 and of the pitch 60
\* on channel 1, each with its note-off 240 ticks later.
MaxPitchItems == 4

PitchItems ==
    {Item("on", 0, 60), Item("raw", 0, <<144, 62, 100>>),
     Item("raw", 0, <<145, 60, 100>>), Item("off", 240, 60),
     Item("raw", 240, <<128, 62, 64>>), Item("raw", 240, <<145, 60, 0>>),
     Item("F", 0, 0)}

InitPitch ==
    /\ bpmChangeThreshold = DefaultThreshold
    /\ \E n \in 0..MaxPitchItems :
           \E items \in [1..n -> PitchItems] :
               Fresh(FileOf(MThd, 480, items, 0), FALSE, FALSE)

\* Malformed files: a status byte without a length (0xF4), a meta event
\* whose length never ends (FF 01 81 81), tempo events out of tick order
\* across tracks, each file whole or cut short by up to MaxBadCut bytes, so
\* that the last chunk, its header or its last event runs past the end of
\* the file. The files are all those of up to MaxBadItems items, and some
\* picked ones.
MaxBadItems == 3
MaxBadCut == 2

BadItems ==
    {Item("on", 480, 60), Item("bad", 0, 244),
     Item("raw", 0, <<255, 1, 129, 129>>), Item("tempo", 480, 250000),
     Item("tempo", 0, 500000), Item("T", 0, 0), Item("F", 0, 0)}

LongBadFiles ==
    {<<Item("tempo", 480, 250000), Item("T", 0, 0), Item("tempo", 0, 500000),
       Item("on", 480, 60)>>,
     <<Item("on", 480, 60), Item("bad", 0, 244), Item("on", 480, 60)>>,
     <<Item("on", 480, 60), Item("raw", 0, <<255, 1, 129, 129>>),
       Item("on", 480, 60)>>}

InitBad ==
    /\ bpmChangeThreshold = DefaultThreshold
    /\ \E cut \in 0..MaxBadCut :
           \/ \E n \in 0..MaxBadItems :
                  \E items \in [1..n -> BadItems] :
                      Fresh(FileOf(MThd, 480, items, cut), FALSE, FALSE)
           \/ \E items \in LongBadFiles :
                  Fresh(FileOf(MThd, 480, items, cut), FALSE, FALSE)

\* Files of channel prefix events (FF 20 01 cc) of the channels 0, 15, 16
\* and 255 and of instrument names (FF 04 01 41), among note-ons.
MaxPrefixItems == 3

PrefixItems ==
    {Item("raw", 0, <<255, 32, 1, 0>>), Item("raw", 0, <<255, 32, 1, 15>>),
     Item("raw", 0, <<255, 32, 1, 16>>), Item("raw", 0, <<255, 32, 1, 255>>),
     Item("raw", 0, <<255, 4, 1, 65>>), Item("on", 0, 60), Item("T", 0, 0),
     Item("F", 0, 0)}

InitPrefix ==
    /\ bpmChangeThreshold = DefaultThreshold
    /\ \E n \in 0..MaxPrefixItems :
           \E items \in [1..n -> PrefixItems] :
               Fresh(FileOf(MThd, 480, items, 0), FALSE, FALSE)

\* Files with tempo events at the ticks 0 and 480, in one track or in
\* several, for the calls of getTempo.
MaxGetTempoItems == 3

GetTempoItems ==
    {Item("tempo", 0, 500000), Item("tempo", 480, 250000),
     Item("tempo", 480, 400000), Item("T", 0, 0), Item("F", 0, 0)}

\* the arguments getTempo is called with
GetTempoTicks == {0, 240, 480, 481, 960}

InitGetTempo ==
    /\ bpmChangeThreshold = DefaultThreshold
    /\ \E n \in 0..MaxGetTempoItems :
           \E items \in [1..n -> GetTempoItems] :
               Fresh(FileOf(MThd, 480, items, 0), FALSE, FALSE)

-----------------------------------------------------------------------------
(* The constructor MidiFile *)

Store ==
    [heap |-> heap, notes |-> notes, channels |-> channels, tracks |-> tracks,
     noteOns |-> noteOns, noteOffs |-> noteOffs, threw |-> FALSE]

\* lines 91-131: the header fields, up to the first test of the chunk loop
ReadHeader ==
    /\ pc = "new"
    /\ LET division == getShort(file, 12)
       IN  /\ IF division # NaN /\ division >= 32768
              THEN /\ framesPerSecond' = division % 32768
                   /\ UNCHANGED ticksPerBeat
              ELSE /\ ticksPerBeat' = division
                   /\ UNCHANGED framesPerSecond
           /\ timeDivision' = [n |-> division, d |-> IF halfSpeed THEN 2 ELSE 1]
    /\ microsecondsPerQuarterNote' = 500000
    /\ timeSignature' = <<4, 4, 24, 8>>
    /\ isMidiFlag' = isMidi(file)
    /\ format' = getShort(file, 8)
    /\ trackCount' = getShort(file, 10)
    /\ IF isCanceled
       THEN pc' = "returned" /\ UNCHANGED <<offset, currentTrack>>
       ELSE pc' = "scan" /\ offset' = 14 /\ currentTrack' = 0
    /\ UNCHANGED <<runVars, file, halfSpeed, isCanceled,
                   bpmChangeThreshold, bpmMap,
                   chunkCount, noteOns, noteOffs,
                   heap, notes, channels, tracks, tempoMap, timeSignatureMap,
                   trk>>

\* mutant of SkipChunk: currentTrack is advanced for every chunk
SkipChunkCountsTrack ==
    /\ pc = "scan"
    /\ OffLess(offset, Len(file))
    /\ substring(file, offset, offset + 4) # MTrk
    /\ chunkCount' = chunkCount + 1
    /\ currentTrack' = currentTrack + 1
    /\ offset' = OffAdd(offset, OffAdd(8, getLong(file, offset + 4)))
    /\ UNCHANGED <<runVars, file, halfSpeed, isCanceled,
                   bpmChangeThreshold, bpmMap,
                   pc, isMidiFlag, format,
                   trackCount, timeDivision, framesPerSecond, ticksPerBeat,
                   microsecondsPerQuarterNote, timeSignature, noteOns,
                   noteOffs, heap, notes, channels, tracks, tempoMap,
                   timeSignatureMap, trk>>

\* mutant of SkipChunk: the 8 bytes of the chunk header are not counted
SkipChunkNoHeader ==
    /\ pc = "scan"
    /\ OffLess(offset, Len(file))
    /\ substring(file, offset, offset + 4) # MTrk
    /\ chunkCount' = chunkCount + 1
    /\ offset' = OffAdd(offset, getLong(file, offset + 4))
    /\ UNCHANGED <<runVars, file, halfSpeed, isCanceled,
                   bpmChangeThreshold, bpmMap,
                   pc, isMidiFlag, format,
                   trackCount, timeDivision, framesPerSecond, ticksPerBeat,
                   microsecondsPerQuarterNote, timeSignature, noteOns,
                   noteOffs, heap, notes, channels, tracks, tempoMap,
                   timeSignatureMap, currentTrack, trk>>

\* lines 132-137 and 218: a chunk that is not "MTrk"
SkipChunk ==
    /\ pc = "scan"
    /\ OffLess(offset, Len(file))
    /\ substring(file, offset, offset + 4) # MTrk
    /\ chunkCount' = chunkCount + 1
    /\ offset' = OffAdd(offset, OffAdd(8, getLong(file, offset + 4)))
    /\ UNCHANGED <<runVars, file, halfSpeed, isCanceled,
                   bpmChangeThreshold, bpmMap,
                   pc, isMidiFlag, format,
                   trackCount, timeDivision, framesPerSecond, ticksPerBeat,
                   microsecondsPerQuarterNote, timeSignature, noteOns,
                   noteOffs, heap, notes, channels, tracks, tempoMap,
                   timeSignatureMap, currentTrack, trk>>

\* mutant of BeginTrack: the tick counter runs on from the track before
BeginTrackCarriesTicks ==
    /\ pc = "scan"
    /\ OffLess(offset, Len(file))
    /\ substring(file, offset, offset + 4) = MTrk
    /\ chunkCount' = chunkCount + 1
    /\ tracks' = Append(tracks, Track(Undefined))
    /\ LET chunkLength == getLong(file, offset + 4)
       IN  trk' = [previousStatus |-> 0, chunkOffset |-> offset + 8,
                   chunkLength |-> chunkLength,
                   chunkEnd |-> OffAdd(offset + 8, chunkLength),
                   ticks |-> trk.ticks, midiChannelPrefix |-> 0,
                   seconds |-> Num(0)]
    /\ pc' = "track"
    /\ UNCHANGED <<runVars, file, halfSpeed, isCanceled,
                   bpmChangeThreshold, bpmMap,
                   isMidiFlag, format, trackCount,
                   timeDivision, framesPerSecond, ticksPerBeat,
                   microsecondsPerQuarterNote, timeSignature, noteOns,
                   noteOffs, heap, notes, channels, tempoMap,
                   timeSignatureMap, offset, currentTrack>>

\* lines 132-145: an "MTrk" chunk is entered
BeginTrack ==
    /\ pc = "scan"
    /\ OffLess(offset, Len(file))
    /\ substring(file, offset, offset + 4) = MTrk
    /\ chunkCount' = chunkCount + 1
    /\ tracks' = Append(tracks, Track(Undefined))
    /\ LET chunkLength == getLong(file, offset + 4)
       IN  trk' = [previousStatus |-> 0, chunkOffset |-> offset + 8,
                   chunkLength |-> chunkLength,
                   chunkEnd |-> OffAdd(offset + 8, chunkLength),
                   ticks |-> 0, midiChannelPrefix |-> 0, seconds |-> Num(0)]
    /\ pc' = "track"
    /\ UNCHANGED <<runVars, file, halfSpeed, isCanceled,
                   bpmChangeThreshold, bpmMap,
                   isMidiFlag, format, trackCount,
                   timeDivision, framesPerSecond, ticksPerBeat,
                   microsecondsPerQuarterNote, timeSignature, noteOns,
                   noteOffs, heap, notes, channels, tempoMap,
                   timeSignatureMap, offset, currentTrack>>

\* mutant of EventHead: every event has a status byte of its own
EventHeadNoRunning ==
    LET delta == getVarVal(file, trk.chunkOffset)
        ticks == trk.ticks + delta
        timed == Truthy(ticks) /\ Truthy(timeDivision.n)
                 /\ Truthy(microsecondsPerQuarterNote)
        afterDelta == trk.chunkOffset + getVarLen(file, trk.chunkOffset)
        read == charCodeAt(file, afterDelta)
        status == IF read = NaN THEN trk.previousStatus ELSE read
        chunkOffset == afterDelta + 1
    IN  [ticks |-> ticks,
         seconds |-> IF timed THEN getTime(tempoMap, timeDivision, ticks)
                     ELSE trk.seconds,
         beats |-> IF timed THEN Num(ticks * timeDivision.d) ELSE Num(0),
         status |-> status,
         statusTop |-> IF status = 255 THEN 255 ELSE status \div 16,
         channel |-> currentTrack * 16 + (status % 16),
         chunkOffset |-> chunkOffset,
         b1 |-> charCodeAt(file, chunkOffset),
         b2 |-> charCodeAt(file, chunkOffset + 1)]

\* lines 148-167 of one iteration of the event loop: what is read before the
\* switch
EventHead ==
    LET delta == getVarVal(file, trk.chunkOffset)
        ticks == trk.ticks + delta
        timed == Truthy(ticks) /\ Truthy(timeDivision.n)
                 /\ Truthy(microsecondsPerQuarterNote)
        afterDelta == trk.chunkOffset + getVarLen(file, trk.chunkOffset)
        read == charCodeAt(file, afterDelta)
        status == IF HighBit(read) THEN read ELSE trk.previousStatus
        chunkOffset == IF HighBit(read) THEN afterDelta + 1 ELSE afterDelta
    IN  [ticks |-> ticks,
         seconds |-> IF timed THEN getTime(tempoMap, timeDivision, ticks)
                     ELSE trk.seconds,
         beats |-> IF timed THEN Num(ticks * timeDivision.d) ELSE Num(0),
         status |-> status,
         statusTop |-> IF status = 255 THEN 255 ELSE status \div 16,
         channel |-> currentTrack * 16 + (status % 16),
         chunkOffset |-> chunkOffset,
         b1 |-> charCodeAt(file, chunkOffset),
         b2 |-> charCodeAt(file, chunkOffset + 1)]

\* mutant of EventStore: a note-off is stored with the velocity byte it
\* carries
EventStoreLiteralVelocity(e) ==
    IF e.statusTop = 8
    THEN addNote(Store, e.seconds, e.beats, e.channel, e.b1, e.b2)
    ELSE IF e.statusTop = 9
    THEN addNote(Store, e.seconds, e.beats, e.channel, e.b1, e.b2)
    ELSE IF e.statusTop = 255 /\ e.b1 = 3
    THEN [Store EXCEPT
             !.tracks[Len(tracks)].hasName = TRUE,
             !.tracks[Len(tracks)].name = getVarString(file, e.chunkOffset + 1)]
    ELSE IF e.statusTop = 255 /\ e.b1 = 4
    THEN LET channel == OffAdd(currentTrack * 16, trk.midiChannelPrefix)
             found == findChannel(Store, channel)
         IN  IF found.threw THEN found
             ELSE [found EXCEPT
                      !.channels[channel].hasInsrument = TRUE,
                      !.channels[channel].insrument =
                          getVarString(file, e.chunkOffset + 1)]
    ELSE Store

\* lines 171-177 and 185-189: what the event does to the notes, the channels
\* and the tracks
EventStore(e) ==
    IF e.statusTop = 8
    THEN addNote(Store, e.seconds, e.beats, e.channel, e.b1, 0)
    ELSE IF e.statusTop = 9
    THEN addNote(Store, e.seconds, e.beats, e.channel, e.b1, e.b2)
    ELSE IF e.statusTop = 255 /\ e.b1 = 3
    THEN [Store EXCEPT
             !.tracks[Len(tracks)].hasName = TRUE,
             !.tracks[Len(tracks)].name = getVarString(file, e.chunkOffset + 1)]
    ELSE IF e.statusTop = 255 /\ e.b1 = 4
    THEN LET channel == OffAdd(currentTrack * 16, trk.midiChannelPrefix)
             found == findChannel(Store, channel)
         IN  IF found.threw THEN found
             ELSE [found EXCEPT
                      !.channels[channel].hasInsrument = TRUE,
                      !.channels[channel].insrument =
                          getVarString(file, e.chunkOffset + 1)]
    ELSE Store

\* lines 146-214: one iteration of the event loop
DecodeEvent ==
    /\ pc = "track"
    /\ OffLess(trk.chunkOffset, trk.chunkEnd)
    /\ LET e == EventHead
           st == EventStore(e)
           meta == e.statusTop = 255
       IN  /\ heap' = st.heap
           /\ notes' = st.notes
           /\ channels' = st.channels
           /\ tracks' = st.tracks
           /\ noteOns' = st.noteOns
           /\ noteOffs' = st.noteOffs
           /\ IF st.threw
              THEN /\ pc' = "threw"
                   /\ trk' = NoTrk
                   /\ UNCHANGED <<microsecondsPerQuarterNote, tempoMap,
                                  timeSignature, timeSignatureMap>>
              ELSE /\ pc' = pc
                   /\ trk' = [trk EXCEPT
                         !.ticks = e.ticks,
                         !.seconds = e.seconds,
                         !.midiChannelPrefix =
                             IF meta /\ e.b1 = 32
                             THEN getByte(file, e.chunkOffset + 2) ELSE @,
                         !.chunkOffset =
                             OffAdd(e.chunkOffset,
                                    getEventLength(file, e.status, e.chunkOffset)),
                         !.previousStatus = e.status]
                   /\ IF meta /\ e.b1 = 81
                      THEN LET mpqn == getInt24(file, e.chunkOffset + 2)
                           IN  /\ microsecondsPerQuarterNote' = mpqn
                               /\ tempoMap' = addTempo(tempoMap, e.ticks, mpqn)
                      ELSE UNCHANGED <<microsecondsPerQuarterNote, tempoMap>>
                   /\ IF meta /\ e.b1 = 88
                      THEN LET sig == <<getByte(file, e.chunkOffset + 2),
                                        ShiftLeftOne(getByte(file, e.chunkOffset + 3)),
                                        getByte(file, e.chunkOffset + 4),
                                        getByte(file, e.chunkOffset + 5)>>
                           IN  /\ timeSignature' = sig
                               /\ timeSignatureMap' =
                                      addTimeSignatureAt(timeSignatureMap, e.ticks,
                                          sig[1], sig[2], sig[3], sig[4])
                      ELSE UNCHANGED <<timeSignature, timeSignatureMap>>
    /\ UNCHANGED <<runVars, file, halfSpeed, isCanceled,
                   bpmChangeThreshold, bpmMap,
                   isMidiFlag, format, trackCount,
                   timeDivision, framesPerSecond, ticksPerBeat, chunkCount,
                   offset, currentTrack>>

\* lines 146 and 215-218: the event loop ends and the chunk is left; the
\* locals of the loop are "var"s of the constructor and keep their values
EndTrack ==
    /\ pc = "track"
    /\ ~OffLess(trk.chunkOffset, trk.chunkEnd)
    /\ currentTrack' = currentTrack + 1
    /\ offset' = OffAdd(offset, OffAdd(8, trk.chunkLength))
    /\ pc' = "scan"
    /\ UNCHANGED <<runVars, file, halfSpeed, isCanceled,
                   bpmChangeThreshold, bpmMap,
                   isMidiFlag, format, trackCount,
                   timeDivision, framesPerSecond, ticksPerBeat,
                   microsecondsPerQuarterNote, timeSignature, chunkCount,
                   noteOns, noteOffs, heap, notes, channels, tracks, tempoMap,
                   timeSignatureMap, trk>>

\* mutant of SortedOrders: the notes are left in the order of decoding
Unsorted(hp, ns) == {ns}

\* the orders notes.sort(function(a, b) { return a.time - b.time; }) may leave:
\* the sort is not required to be stable, and with a NaN time the comparison
\* is inconsistent and any order may result
SortedOrders(hp, ns) ==
    LET n == Len(ns)
        perms == {f \in [1..n -> 1..n] : \A i, j \in 1..n : i # j => f[i] # f[j]}
        ordered(f) == \A i, j \in 1..n :
                          i < j => ~NumLess(hp[ns[f[j]]].time, hp[ns[f[i]]].time)
        numeric == \A i \in 1..n : IsNum(hp[ns[i]].time)
    IN  {[i \in 1..n |-> ns[f[i]]] : f \in {g \in perms : numeric => ordered(g)}}

\* lines 132 and 220-223: the chunk loop ends and the notes are sorted
Finish ==
    /\ pc = "scan"
    /\ ~OffLess(offset, Len(file))
    /\ notes' \in SortedOrders(heap, notes)
    /\ pc' = "done"
    /\ UNCHANGED <<runVars, file, halfSpeed, isCanceled,
                   bpmChangeThreshold, bpmMap,
                   isMidiFlag, format, trackCount,
                   timeDivision, framesPerSecond, ticksPerBeat,
                   microsecondsPerQuarterNote, timeSignature, chunkCount,
                   noteOns, noteOffs, heap, channels, tracks, tempoMap,
                   timeSignatureMap, offset, currentTrack, trk>>

\* lines 1402 and 1416 of createVisualizer: the file read is handed to
\* createBpmMap
CreateBpmMap ==
    /\ pc \in {"done", "returned"}
    /\ bpmMap' = createBpmMap(tempoMap, timeDivision, bpmChangeThreshold,
                              isCanceled)
    /\ pc' = "mapped"
    /\ UNCHANGED <<runVars, file, halfSpeed, isCanceled,
                   bpmChangeThreshold,
                   isMidiFlag, format, trackCount, timeDivision,
                   framesPerSecond, ticksPerBeat, microsecondsPerQuarterNote,
                   timeSignature, chunkCount, noteOns, noteOffs, heap, notes,
                   channels, tracks, tempoMap, timeSignatureMap, offset,
                   currentTrack, trk>>

-----------------------------------------------------------------------------
(* createVisualizer *)

\* the division of the files createVisualizer is run on: the seconds of all
\* of them are numerators over RunDivision * 1000000
RunDivision == 480

\* midiCustomSettings.trailingDuration = 2.5
trailingDuration == Num(2500000 * RunDivision)

\* lines 807-813 and 820-829: while (noteDur == undefined), from the note at
\* noteIndex downwards; noteTime and noteDur are vars of the function and
\* come in with the values they have
RECURSIVE LastWithDuration(_, _, _, _)
LastWithDuration(ns, noteIndex, noteTime, noteDur) ==
    IF noteDur.k # "undef" THEN <<noteTime, noteDur>>
    ELSE IF noteIndex - 1 < 1
    THEN <<ns[noteIndex].time, ns[noteIndex].durTime>>
    ELSE LastWithDuration(ns, noteIndex - 1, ns[noteIndex].time,
                          ns[noteIndex].durTime)

\* lines 803-817: the loop over the files of an array
RECURSIVE LatestOfArray(_, _, _, _, _)
LatestOfArray(midiFiles, i, latest, noteTime, noteDur) ==
    IF i > Len(midiFiles) THEN latest
    ELSE IF Len(midiFiles[i].notes) = 0
    THEN LatestOfArray(midiFiles, i + 1, latest, noteTime, noteDur)
    ELSE LET ns == midiFiles[i].notes
             last == LastWithDuration(ns, Len(ns), noteTime, noteDur)
             ends == NumAdd(last[1], last[2])
         IN  LatestOfArray(midiFiles, i + 1,
                           IF NumLess(latest, ends) THEN ends ELSE latest,
                           last[1], last[2])

\* getLatestMidiNote(midiFiles) on an array
getLatestMidiNote(midiFiles) ==
    NumAdd(LatestOfArray(midiFiles, 1, Num(0), Undef, Undef),
           trailingDuration)

\* getLatestMidiNote(midiFiles) on one file (lines 818-834)
getLatestMidiNoteOfFile(midiFile) ==
    LET ns == midiFile.notes
        last == IF Len(ns) = 0 THEN <<Undef, Undef>>
                ELSE LastWithDuration(ns, Len(ns), Undef, Undef)
        ends == NumAdd(last[1], last[2])
    IN  NumAdd(IF NumLess(Num(0), ends) THEN ends ELSE Num(0),
               trailingDuration)

\* what readMidiFiles keeps of a MidiFile: the notes in the order of
\* this.notes, the tempo map and the division
ParsedFile ==
    [notes |-> [j \in 1..Len(notes) |-> heap[notes[j]]],
     tempoMap |-> tempoMap, timeDivision |-> timeDivision]

\* createBpmMap when isCanceled is seen set at the check of line 1079 of the
\* iteration stop (counted from 1), and not before
RECURSIVE createBpmMapUntil(_, _, _, _, _, _)
createBpmMapUntil(map, td, thr, stop, i, kept) ==
    IF i > Len(map) THEN kept
    ELSE LET mpqn == map[i].microsecondsPerQuarterNote
             second == getTime(map, td, map[i].tick)
             pushed == IF KeepsTempo(map, thr, i, kept)
                       THEN Append(kept, BPM(second,
                                             RoundedBpm(mpqn, amountOfDecimals(thr)),
                                             mpqn))
                       ELSE kept
         IN  IF i >= stop THEN pushed
             ELSE createBpmMapUntil(map, td, thr, stop, i + 1, pushed)

\* if (x) on a time value
TruthyNum(a) == a.k = "inf" \/ (a.k = "num" /\ a.v # 0)

\* the values isCanceled may have after midiWndw.update(): a click on the
\* button is delivered there, and sets it when the handler is the one of
\* pb.start()
AfterUpdate(canceled) ==
    IF createCancelBtn.onClick = "cancel" THEN {canceled, TRUE} ELSE {canceled}

Comp(name, i) == <<"comp", name, i>>
Layer(name, i) == <<"layer", name, i>>

decodeVars == <<file, pc, isMidiFlag, format, trackCount, timeDivision,
                framesPerSecond, ticksPerBeat, microsecondsPerQuarterNote,
                timeSignature, chunkCount, noteOns, noteOffs, heap, notes,
                channels, tracks, tempoMap, timeSignatureMap, offset,
                currentTrack, trk>>

\* lines 1396-1399 and 789: createVisualizer is called by the button, the
\* progress bar starts, readMidiFiles begins
RunStart ==
    /\ cv.pc = "idle"
    /\ createCancelBtn.onClick = "createVisualizer"
    /\ createCancelBtn' = CancelButton
    /\ isCanceled' \in {FALSE, TRUE}
    /\ parsedMidiFiles' = <<>>
    /\ cv' = [pc |-> "reading", i |-> 1, j |-> 0]
    /\ UNCHANGED <<decodeVars, halfSpeed, bpmChangeThreshold, tempoAt, bpmMap,
                   midiConfigs, midiCustomSettings, latestMidiNote, project>>

\* lines 790-792: updateCurrent, then "new MidiFile" begins on the next file;
\* currentTrack is a global and keeps its value
ReadNext ==
    /\ cv.pc = "reading"
    /\ isCanceled' \in AfterUpdate(isCanceled)
    /\ file' = midiConfigs[cv.i]
    /\ pc' = "new"
    /\ isMidiFlag' = FALSE
    /\ format' = Undefined
    /\ trackCount' = Undefined
    /\ timeDivision' = [n |-> Undefined, d |-> 1]
    /\ framesPerSecond' = Undefined
    /\ ticksPerBeat' = Undefined
    /\ microsecondsPerQuarterNote' = Undefined
    /\ timeSignature' = <<Undefined, Undefined, Undefined, Undefined>>
    /\ chunkCount' = 0
    /\ noteOns' = 0
    /\ noteOffs' = 0
    /\ heap' = <<>>
    /\ notes' = <<>>
    /\ channels' = <<>>
    /\ tracks' = <<>>
    /\ tempoMap' = <<>>
    /\ timeSignatureMap' = <<>>
    /\ offset' = Undefined
    /\ trk' = NoTrk
    /\ cv' = [cv EXCEPT !.pc = "decoding"]
    /\ UNCHANGED <<currentTrack, halfSpeed, bpmChangeThreshold, tempoAt, bpmMap,
                   midiConfigs, midiCustomSettings, parsedMidiFiles,
                   latestMidiNote, project, createCancelBtn>>

\* lines 792-794: the MidiFile is pushed, and the loop goes on or ends
ReadDone ==
    /\ cv.pc = "decoding"
    /\ pc \in {"done", "returned"}
    /\ parsedMidiFiles' = Append(parsedMidiFiles, ParsedFile)
    /\ pc' = "idle"
    /\ cv' = IF isCanceled \/ cv.i + 1 > Len(midiConfigs)
             THEN [cv EXCEPT !.pc = "latest"]
             ELSE [cv EXCEPT !.pc = "reading", !.i = cv.i + 1]
    /\ UNCHANGED <<file, isMidiFlag, format, trackCount, timeDivision,
                   framesPerSecond, ticksPerBeat, microsecondsPerQuarterNote,
                   timeSignature, chunkCount, noteOns, noteOffs, heap, notes,
                   channels, tracks, tempoMap, timeSignatureMap, offset,
                   currentTrack, trk, halfSpeed, isCanceled,
                   bpmChangeThreshold, tempoAt, bpmMap, midiConfigs,
                   midiCustomSettings, latestMidiNote, project,
                   createCancelBtn>>

\* the exception of the decode leaves createVisualizer
ReadThrew ==
    /\ cv.pc = "decoding"
    /\ pc = "threw"
    /\ cv' = [cv EXCEPT !.pc = "threw"]
    /\ UNCHANGED <<decodeVars, halfSpeed, isCanceled, bpmChangeThreshold, tempoAt,
                   bpmMap, midiConfigs, midiCustomSettings, parsedMidiFiles,
                   latestMidiNote, project, createCancelBtn>>

\* lines 1403-1409: the latest note of all files, the master composition
\* and the index of the file the tempo is taken from
Master ==
    /\ cv.pc = "latest"
    /\ latestMidiNote' = getLatestMidiNote(parsedMidiFiles)
    /\ project' = Append(project, Comp("MidiMaster", 0))
    /\ LET index == midiCustomSettings.bpmSourceIndex
           first == IF index < 0 THEN 0 ELSE index
       IN  midiCustomSettings' =
               [midiCustomSettings EXCEPT
                   !.bpmSourceIndex =
                       IF first + 1 > Len(parsedMidiFiles)
                       THEN Len(parsedMidiFiles) - 1 ELSE first]
    /\ cv' = [cv EXCEPT !.pc = "bpm"]
    /\ UNCHANGED <<decodeVars, halfSpeed, isCanceled, bpmChangeThreshold, tempoAt,
                   bpmMap, midiConfigs, parsedMidiFiles, createCancelBtn>>

\* lines 1416-1425: createBpmMap on the file of bpmSourceIndex, with a click
\* delivered at one of its updates or at none
RunCreateBpmMap ==
    /\ cv.pc = "bpm"
    /\ LET midiFile == parsedMidiFiles[midiCustomSettings.bpmSourceIndex + 1]
           length == Len(midiFile.tempoMap)
       IN  \E stop \in 1..(length + 1), click \in BOOLEAN :
               /\ isCanceled => stop = 1
               /\ stop <= length => isCanceled \/ click
               /\ click => createCancelBtn.onClick = "cancel"
               /\ isCanceled' = (isCanceled \/ click)
               /\ bpmMap' = createBpmMapUntil(midiFile.tempoMap,
                                              midiFile.timeDivision,
                                              bpmChangeThreshold, stop, 1, <<>>)
    /\ cv' = IF isCanceled' THEN [cv EXCEPT !.pc = "finishing"]
             ELSE [cv EXCEPT !.pc = "files", !.i = 1]
    /\ UNCHANGED <<decodeVars, halfSpeed, bpmChangeThreshold, tempoAt, midiConfigs,
                   midiCustomSettings, parsedMidiFiles, latestMidiNote,
                   project, createCancelBtn>>

\* lines 1427-1441: the scroller composition of the file i and its null
\* layer, the keyframes of addScrollerKeyframes (which reads bpmMap[0]),
\* updateTotal
FileBegin ==
    /\ cv.pc = "files"
    /\ latestMidiNote' = getLatestMidiNoteOfFile(parsedMidiFiles[cv.i])
    /\ project' = project \o <<Comp("Scroller", cv.i), Layer("Null", cv.i)>>
    /\ IF midiCustomSettings.bpmBasedSpeed /\ bpmMap = <<>>
       THEN /\ cv' = [cv EXCEPT !.pc = "threw"]
            /\ UNCHANGED isCanceled
       ELSE /\ cv' = [cv EXCEPT !.pc = "comp"]
            /\ isCanceled' \in AfterUpdate(isCanceled)
    /\ UNCHANGED <<decodeVars, halfSpeed, bpmChangeThreshold, tempoAt, bpmMap,
                   midiConfigs, midiCustomSettings, parsedMidiFiles,
                   createCancelBtn>>

\* lines 1443-1459: the composition of the notes and its layer in the
\* scroller composition
FileComp ==
    /\ cv.pc = "comp"
    /\ project' = project \o <<Comp("notes", cv.i), Layer("notes", cv.i)>>
    /\ latestMidiNote' = Num(0)
    /\ cv' = [cv EXCEPT !.pc = "notes", !.j = 1]
    /\ UNCHANGED <<decodeVars, halfSpeed, isCanceled, bpmChangeThreshold, tempoAt,
                   bpmMap, midiConfigs, midiCustomSettings, parsedMidiFiles,
                   createCancelBtn>>

\* lines 1460-1523, one iteration: the shape layer of the note j, then
\* updateCurrent and the test of isCanceled
NoteStep ==
    /\ cv.pc = "notes"
    /\ cv.j <= Len(parsedMidiFiles[cv.i].notes)
    /\ LET note == parsedMidiFiles[cv.i].notes[cv.j]
       IN  project' = IF Truthy(note.vel) /\ TruthyNum(note.durTime)
                      THEN Append(project, Layer("shape", cv.j))
                      ELSE project
    /\ isCanceled' \in AfterUpdate(isCanceled)
    /\ cv' = IF isCanceled' THEN [cv EXCEPT !.pc = "finishing"]
             ELSE [cv EXCEPT !.j = cv.j + 1]
    /\ UNCHANGED <<decodeVars, halfSpeed, bpmChangeThreshold, tempoAt, bpmMap,
                   midiConfigs, midiCustomSettings, parsedMidiFiles,
                   latestMidiNote, createCancelBtn>>

\* lines 1460 and 1524-1527: the notes of the file are through
NotesDone ==
    /\ cv.pc = "notes"
    /\ cv.j > Len(parsedMidiFiles[cv.i].notes)
    /\ cv' = IF isCanceled \/ cv.i + 1 > Len(parsedMidiFiles)
             THEN [cv EXCEPT !.pc = "finishing"]
             ELSE [cv EXCEPT !.pc = "files", !.i = cv.i + 1]
    /\ UNCHANGED <<decodeVars, halfSpeed, isCanceled, bpmChangeThreshold, tempoAt,
                   bpmMap, midiConfigs, midiCustomSettings, parsedMidiFiles,
                   latestMidiNote, project, createCancelBtn>>

\* lines 1530-1545: updateTotal, then pb.stop()
RunStop ==
    /\ cv.pc = "finishing"
    /\ isCanceled' \in AfterUpdate(isCanceled)
    /\ createCancelBtn' = CreateButton
    /\ cv' = [cv EXCEPT !.pc = "stopped"]
    /\ UNCHANGED <<decodeVars, halfSpeed, bpmChangeThreshold, tempoAt, bpmMap,
                   midiConfigs, midiCustomSettings, parsedMidiFiles,
                   latestMidiNote, project>>

\* The files createVisualizer is run on: the list of the panel holds at
\* least one file (the button is not shown before), each of them one of
\* RunFiles.
MaxRunFiles == 2

RunFiles ==
    {FileOf(MThd, RunDivision, items, 0) : items \in
        {<<Item("on", 0, 60), Item("off", 480, 60)>>,
         <<Item("tempo", 0, 500000), Item("on", 0, 60), Item("off", 960, 60)>>,
         <<Item("tempo", 0, 500000), Item("tempo", 480, 250000),
           Item("on", 0, 62), Item("on", 0, 60), Item("off", 240, 60)>>,
         <<Item("tempo", 0, 500000), Item("F", 0, 0)>>,
         <<Item("raw", 0, <<255, 32, 1, 16>>),
           Item("raw", 0, <<255, 4, 1, 65>>)>>}}

InitRun ==
    /\ halfSpeed = FALSE
    /\ isCanceled = FALSE
    /\ bpmChangeThreshold = DefaultThreshold
    /\ file = <<>>
    /\ pc = "idle"
    /\ isMidiFlag = FALSE
    /\ format = Undefined
    /\ trackCount = Undefined
    /\ timeDivision = [n |-> Undefined, d |-> 1]
    /\ framesPerSecond = Undefined
    /\ ticksPerBeat = Undefined
    /\ microsecondsPerQuarterNote = Undefined
    /\ timeSignature = <<Undefined, Undefined, Undefined, Undefined>>
    /\ chunkCount = 0
    /\ noteOns = 0
    /\ noteOffs = 0
    /\ heap = <<>>
    /\ notes = <<>>
    /\ channels = <<>>
    /\ tracks = <<>>
    /\ tempoMap = <<>>
    /\ timeSignatureMap = <<>>
    /\ offset = Undefined
    /\ currentTrack = Undefined
    /\ trk = NoTrk
    /\ bpmMap = <<>>
    /\ \E n \in 1..MaxRunFiles : midiConfigs \in [1..n -> RunFiles]
    /\ \E based \in BOOLEAN :
           midiCustomSettings = [DefaultSettings EXCEPT !.bpmBasedSpeed = based]
    /\ parsedMidiFiles = <<>>
    /\ latestMidiNote = Num(0)
    /\ project = <<>>
    /\ createCancelBtn = CreateButton
    /\ cv = [pc |-> "idle", i |-> 0, j |-> 0]
    /\ tempoAt = NoCall

Next ==
    \/ ReadHeader
    \/ SkipChunk
    \/ BeginTrack
    \/ DecodeEvent
    \/ EndTrack
    \/ Finish
    \/ CreateBpmMap

Spec == Init /\ [][Next]_vars

-----------------------------------------------------------------------------
(* A second decode, interleaved with the first.  currentTrack is assigned   *)
(* without "var" and so is one global variable, the only one a decode       *)
(* writes; the second decode is modelled by what it does to it.             *)

\* the number of tracks the other file may have
MaxTrackCounter == 3

OtherUnchanged ==
    UNCHANGED <<runVars, file, halfSpeed, isCanceled,
                bpmChangeThreshold, bpmMap, pc,
                isMidiFlag, format, trackCount, timeDivision, framesPerSecond,
                ticksPerBeat, microsecondsPerQuarterNote, timeSignature,
                chunkCount, noteOns, noteOffs, heap, notes, channels, tracks,
                tempoMap, timeSignatureMap, offset, trk>>

\* line 131 of the other decode
OtherBegins ==
    /\ pc \in {"scan", "track"}
    /\ currentTrack' = 0
    /\ OtherUnchanged

\* line 215 of the other decode
OtherEndsTrack ==
    /\ pc \in {"scan", "track"}
    /\ currentTrack < MaxTrackCounter
    /\ currentTrack' = currentTrack + 1
    /\ OtherUnchanged

NextShared ==
    \/ Next
    \/ OtherBegins
    \/ OtherEndsTrack

SpecShared == InitShared /\ [][NextShared]_vars

SpecStream == InitStream /\ [][Next]_vars

SpecVarLen == InitVarLen /\ [][Next]_vars

SpecBpm == InitBpm /\ [][Next]_vars

SpecFrames == InitFrames /\ [][Next]_vars

SpecCancel == InitCancel /\ [][Next]_vars

SpecHalf == InitHalf /\ [][Next]_vars

SpecOff == InitOff /\ [][Next]_vars

SpecChan == InitChan /\ [][Next]_vars

SpecSysEx == InitSysEx /\ [][Next]_vars

SpecMeta == InitMeta /\ [][Next]_vars

SpecTempo == InitTempo /\ [][Next]_vars

SpecPitch == InitPitch /\ [][Next]_vars

SpecBad == InitBad /\ [][Next]_vars

SpecPrefix == InitPrefix /\ [][Next]_vars

\* midiFile.getTempo(tick), called once on a file that has been read
GetTempo ==
    /\ pc = "done"
    /\ ~tempoAt.called
    /\ \E tick \in GetTempoTicks :
           tempoAt' = [called |-> TRUE, tick |-> tick,
                       result |-> getTempo(tempoMap, tick)]
    /\ UNCHANGED <<file, halfSpeed, isCanceled, pc, isMidiFlag, format,
                   trackCount, timeDivision, framesPerSecond, ticksPerBeat,
                   microsecondsPerQuarterNote, timeSignature, chunkCount,
                   noteOns, noteOffs, heap, notes, channels, tracks, tempoMap,
                   timeSignatureMap, offset, currentTrack, trk,
                   bpmChangeThreshold, bpmMap, midiConfigs,
                   midiCustomSettings, parsedMidiFiles, latestMidiNote,
                   project, createCancelBtn, cv>>

NextGetTempo ==
    \/ Next
    \/ GetTempo

SpecGetTempo == InitGetTempo /\ [][NextGetTempo]_vars

\* createVisualizer, with the decode of each file in it
NextRun ==
    \/ RunStart
    \/ ReadNext
    \/ ReadHeader
    \/ SkipChunk
    \/ BeginTrack
    \/ DecodeEvent
    \/ EndTrack
    \/ Finish
    \/ ReadDone
    \/ ReadThrew
    \/ Master
    \/ RunCreateBpmMap
    \/ FileBegin
    \/ FileComp
    \/ NoteStep
    \/ NotesDone
    \/ RunStop

SpecRun == InitRun /\ [][NextRun]_vars

\* Once started, createVisualizer runs to its end or to an exception: the
\* script is one thread and nothing else is scheduled.  That Create is
\* clicked at all is not required.  The fairness of DecodeEvent is written
\* with its guard in the place of ENABLED.
RunSteps ==
    \/ ReadNext
    \/ ReadHeader
    \/ SkipChunk
    \/ BeginTrack
    \/ EndTrack
    \/ Finish
    \/ ReadDone
    \/ ReadThrew
    \/ Master
    \/ RunCreateBpmMap
    \/ FileBegin
    \/ FileComp
    \/ NoteStep
    \/ NotesDone
    \/ RunStop

FairSpecRun ==
    /\ InitRun
    /\ [][NextRun]_vars
    /\ WF_vars(RunSteps)
    /\ \/ []<>(~(pc = "track" /\ OffLess(trk.chunkOffset, trk.chunkEnd)))
       \/ []<><<DecodeEvent>>_vars

SpecHeader == InitHeader /\ [][Next]_vars

-----------------------------------------------------------------------------
(* Properties *)

\* the ticks getTime is probed at: 0, and the ticks at and around the entries
\* of the tempo map and the position of the event loop
ProbeTicks ==
    {0, 1} \cup {tempoMap[i].tick + e : i \in DOMAIN tempoMap, e \in {0, 1, 480}}
           \cup {trk.ticks, trk.ticks + 1}

\* no entry of the tempo map was read past the end of the file
TempoMapRead ==
    \A i \in DOMAIN tempoMap : tempoMap[i].microsecondsPerQuarterNote # NaN

NumLeq(a, b) == a = b \/ NumLess(a, b)

IsNoteOn(note) == Truthy(note.vel)
IsResolved(note) == note.durTime.k # "undef"

\* C1: every note-on (velocity > 0) either has no duration or has a duration
\* in seconds that is a number >= 0, whatever the order of the note and tempo
\* events of its track.
C1_NoNegativeDuration ==
    \A i \in DOMAIN heap :
        IsNoteOn(heap[i]) /\ IsResolved(heap[i])
            => NumLeq(Num(0), heap[i].durTime)

\* C2: on every tempo map the decoder builds, getTime(0) = 0 and getTime is
\* non-decreasing in the tick.
C2_GetTimeMonotone ==
    (Truthy(timeDivision.n) /\ TempoMapRead) =>
        /\ getTime(tempoMap, timeDivision, 0) = Num(0)
        /\ \A a, b \in ProbeTicks :
               a <= b => NumLeq(getTime(tempoMap, timeDivision, a),
                                getTime(tempoMap, timeDivision, b))

\* C3: with a single tempo T in the tempo map and the division D,
\* getTime(ticks) = ticks * T / D / 1000000 at every tick.
C3_SingleTempo ==
    (Len(tempoMap) = 1 /\ TempoMapRead /\ Truthy(timeDivision.n)) =>
        \A t \in ProbeTicks :
            getTime(tempoMap, timeDivision, t) =
                Num(t * tempoMap[1].microsecondsPerQuarterNote * timeDivision.d)

\* an event decoded at tick 480 under the single tempo 250000
C3_Witness ==
    /\ pc = "track"
    /\ Len(tempoMap) = 1
    /\ tempoMap[1].microsecondsPerQuarterNote = 250000
    /\ trk.ticks = 480
    /\ trk.seconds = Num(480 * 250000)

\* the positions in a channel's notes of the terminators and of the note-ons
\* of a pitch
OffsOf(ns, pitch) ==
    {j \in DOMAIN ns : ~IsNoteOn(heap[ns[j]]) /\ heap[ns[j]].pitch = pitch}
OnsOf(ns, pitch) ==
    {i \in DOMAIN ns : IsNoteOn(heap[ns[i]]) /\ heap[ns[i]].pitch = pitch}

Pitches == 0..127

\* C4: when several note-ons of a pitch precede the single note-off of that
\* pitch on a channel, the nearest one gets the duration (the time from it to
\* the note-off) and the earlier ones stay unresolved.
C4_NearestNoteOn ==
    \A c \in DOMAIN channels :
        LET ns == channels[c].notes
        IN  \A j \in DOMAIN ns :
                LET p == heap[ns[j]].pitch
                    before == {i \in OnsOf(ns, p) : i < j}
                IN  (p \in Pitches /\ OffsOf(ns, p) = {j} /\ Cardinality(before) >= 2)
                    => \A i \in before :
                           IF \A k \in before : k <= i
                           THEN heap[ns[i]].durTime =
                                    NumSub(heap[ns[j]].time, heap[ns[i]].time)
                           ELSE ~IsResolved(heap[ns[i]])

\* two note-ons at tick 0, then the note-off 480 ticks later
C4_Witness ==
    /\ 0 \in DOMAIN channels
    /\ Len(channels[0].notes) = 3
    /\ Len(heap) = 3
    /\ IsNoteOn(heap[1]) /\ IsNoteOn(heap[2]) /\ ~IsNoteOn(heap[3])
    /\ ~IsResolved(heap[1])
    /\ heap[2].durTime = Num(480 * 500000)

\* C5: the note-on a terminator resolves is the nearest preceding note-on of
\* its pitch and channel whose duration is still unset, so that on, on, off,
\* off resolves both note-ons.
C5_ResolvesNearestOpen ==
    [][\A c \in DOMAIN channels :
          LET ns == channels[c].notes
              ns2 == channels'[c].notes
              p == heap'[ns2[Len(ns2)]].pitch
              open == {i \in OnsOf(ns, p) : ~IsResolved(heap[ns[i]])}
          IN  (/\ c \in DOMAIN channels'
               /\ Len(ns2) = Len(ns) + 1
               /\ ~IsNoteOn(heap'[ns2[Len(ns2)]])
               /\ p \in Pitches
               /\ open # {})
              => \E i \in open :
                     /\ \A k \in open : k <= i
                     /\ IsResolved(heap'[ns[i]])]_vars

\* C6: a duration, once set, is never changed by a later event.
C6_DurationImmutable ==
    [][\A i \in DOMAIN heap :
          IsResolved(heap[i]) => heap'[i].durTime = heap[i].durTime]_vars

\* the file of the end-to-end scenario: division 480, tempo 500000 at tick 0,
\* note-on 60 at tick 0, note-off at tick 480
ScenarioFile ==
    FileOf(MThd, 480,
           <<Item("tempo", 0, 500000), Item("on", 0, 60), Item("off", 480, 60)>>,
           0)

\* the value of us microseconds as a time of this decode
Microseconds(us) == Num(us * timeDivision.n)

ScenarioYields(duration) ==
    (file = ScenarioFile /\ pc = "done") =>
        \E i \in DOMAIN heap :
            /\ \A k \in DOMAIN heap :
                   (IsNoteOn(heap[k]) /\ IsResolved(heap[k])) <=> k = i
            /\ heap[i].time = Num(0)
            /\ heap[i].pitch = 60
            /\ heap[i].durTime = duration

\* C7 (as amended): the scenario yields exactly one resolved note, at time
\* 0.0 s, of pitch 60, and its duration is 0.5 s: 480 ticks are one quarter
\* note of 500000 microseconds.
C7_ScenarioHalfSecond == ScenarioYields(Microseconds(500000))

\* C7 (as stated): the duration of that note is 1.0 s.
C7_ScenarioOneSecond == ScenarioYields(Microseconds(1000000))

C7_Witness ==
    /\ file = ScenarioFile
    /\ pc = "done"
    /\ Len(notes) = 2
    /\ IsResolved(heap[1])

\* the chunks met from offset o on, following the declared lengths, up to the
\* offset stop (to the end of the file when stop is NaN): how many are "MTrk",
\* and whether stop is the start of one of them or the place the walk ends
RECURSIVE MTrkBefore(_, _, _)
MTrkBefore(f, o, stop) ==
    IF ~OffLess(o, Len(f)) \/ (stop # NaN /\ o >= stop) THEN 0
    ELSE (IF substring(f, o, o + 4) = MTrk THEN 1 ELSE 0)
         + MTrkBefore(f, OffAdd(o, OffAdd(8, getLong(f, o + 4))), stop)

RECURSIVE OnChunkBoundary(_, _, _)
OnChunkBoundary(f, o, stop) ==
    IF o = stop THEN TRUE
    ELSE IF ~OffLess(o, Len(f)) \/ (stop # NaN /\ o >= stop) THEN FALSE
    ELSE OnChunkBoundary(f, OffAdd(o, OffAdd(8, getLong(f, o + 4))), stop)

\* C8: a chunk that is not "MTrk" is skipped by 8 + its declared length and
\* makes no track: the tracks are the "MTrk" chunks, in file order, and every
\* channel index has the base 16 * (number of "MTrk" chunks before its own).
C8_OnlyMTrkMakesTracks ==
    pc \in {"scan", "track", "done"} =>
        /\ OnChunkBoundary(file, 14, offset)
        /\ currentTrack = MTrkBefore(file, 14, offset)
        /\ Len(tracks) = currentTrack + (IF pc = "track" THEN 1 ELSE 0)
        /\ \A i \in DOMAIN heap :
               /\ heap[i].channel \div 16 < Len(tracks)
               /\ \A j \in DOMAIN heap :
                      i <= j => heap[i].channel \div 16 <= heap[j].channel \div 16
        /\ \A t \in DOMAIN tracks :
               \A k \in DOMAIN tracks[t].channels :
                   LET c == tracks[t].channels[k]
                   IN  /\ c \div 16 = t - 1
                       /\ \A m \in DOMAIN channels[c].notes :
                              heap[channels[c].notes[m]].channel = c
        /\ \A c \in DOMAIN channels :
               \E t \in DOMAIN tracks :
                   \E k \in DOMAIN tracks[t].channels :
                       tracks[t].channels[k] = c

\* an "MTrk" chunk, a chunk of another type, then an "MTrk" chunk whose note
\* is on channel 16 = track 1, channel 0
C8_Witness ==
    /\ pc = "done"
    /\ chunkCount = 3
    /\ Len(tracks) = 2
    /\ tracks[1].channels = <<0>>
    /\ tracks[2].channels = <<16>>
    /\ Len(channels[16].notes) = 1

\* C9: a buffer that does not start with "MThd" is refused before any chunk
\* is scanned: it yields no track, note, tempo or time signature.
C9_NotMidiYieldsNothing ==
    (pc # "new" /\ ~isMidiFlag) =>
        /\ chunkCount = 0
        /\ tracks = <<>>
        /\ notes = <<>>
        /\ tempoMap = <<>>
        /\ timeSignatureMap = <<>>

\* C10: a decode that reads past the end of the buffer fails, and no event is
\* made of what lies past the end: a decode that ends normally holds no note
\* and no tempo with a field that charCodeAt could not read.
C10_NothingPastTheEnd ==
    pc = "done" =>
        /\ \A i \in DOMAIN heap : heap[i].pitch # NaN /\ heap[i].vel # NaN
        /\ TempoMapRead

\* a status the event loop cannot find the length of: a data byte taken for
\* a status (running status with no status seen), or a status byte that
\* getEventLength has no case for
InvalidStatus(status) ==
    \/ status < 128
    \/ (status \div 16 = 15 /\ status \notin {240, 255})

\* C11: when the event loop meets a data byte where the first status of a
\* track should be, or a status byte whose length cannot be computed, the
\* decode of the track fails: the step does not go on as if the track were
\* read.
C11_InvalidStreamFails ==
    [][(/\ pc = "track"
        /\ OffLess(trk.chunkOffset, trk.chunkEnd)
        /\ InvalidStatus(EventHead.status))
       => pc' = "threw"]_vars

\* where the delta time of the second event of the first chunk starts when
\* the first event is the tempo event DeltaTempo
SecondDelta == 22 + Len(EventBytes(DeltaTempo))

\* the second event of the first track has been decoded
SecondDecoded ==
    /\ pc = "track"
    /\ Len(tracks) = 1
    /\ trk.chunkOffset \notin {22, SecondDelta}

\* the bytes of the file from SecondDelta on start with the quantity n, as
\* the delta time of a note-on
DeltaIs(n) ==
    SubSeq(file, SecondDelta + 1, SecondDelta + Len(EncodeVLQ(n)) + 1)
        = EncodeVLQ(n) \o <<144>>

\* the bytes the event loop took for the delta time of the note-on
DeltaConsumed == trk.chunkOffset - 3 - SecondDelta

\* C12: getVarVal and getVarLen invert the encoding of a quantity: the
\* quantity decoded, encoded again, gives the bytes that were read, and
\* getVarLen is their number; 0, 127, 128, 16383 and 16384 are decoded from
\* 1, 1, 2, 2 and 3 bytes.
C12_VarLenRoundTrip ==
    SecondDecoded =>
        /\ trk.previousStatus = 144
        /\ DeltaConsumed = Len(EncodeVLQ(trk.ticks))
        /\ SubSeq(file, SecondDelta + 1, SecondDelta + DeltaConsumed)
               = EncodeVLQ(trk.ticks)
        /\ \A c \in {<<0, 1>>, <<127, 1>>, <<128, 2>>, <<16383, 2>>,
                      <<16384, 3>>} :
               DeltaIs(c[1]) => trk.ticks = c[1] /\ DeltaConsumed = c[2]

\* the delta time 16384 was read from the three bytes 81 80 00
C12_Witness ==
    /\ SecondDecoded
    /\ DeltaIs(16384)
    /\ SubSeq(file, SecondDelta + 1, SecondDelta + 3) = <<129, 128, 0>>
    /\ trk.ticks = 16384
    /\ DeltaConsumed = 3

\* the BPM of the entry i of the tempo map, rounded to the decimal places of
\* the threshold (halves up), in units of 1 / 10^decimalPlaces: the integer
\* R with R - 1/2 <= 60000000 * 10^decimalPlaces / mpqn < R + 1/2
BpmAtPrecision(i) ==
    LET mpqn == tempoMap[i].microsecondsPerQuarterNote
        unit == 10 ^ bpmChangeThreshold.decimalPlaces
        low == (60000000 \div mpqn) * unit
    IN  CHOOSE R \in low..(low + unit) :
            /\ (2 * R - 1) * mpqn <= 2 * 60000000 * unit
            /\ 2 * 60000000 * unit < (2 * R + 1) * mpqn

\* the last index of K below i
LastBelow(K, i) == CHOOSE k \in K : k < i /\ \A m \in K : m < i => m <= k

\* the entries to keep: the first, and every later one whose rounded BPM is
\* at least the threshold away from that of the last entry kept before it
KeptIndices ==
    CHOOSE K \in SUBSET DOMAIN tempoMap :
        \A i \in DOMAIN tempoMap :
            i \in K <=>
                \/ i = 1
                \/ LET d == BpmAtPrecision(i) - BpmAtPrecision(LastBelow(K \cup {1}, i))
                   IN  d >= bpmChangeThreshold.scaled
                       \/ 0 - d >= bpmChangeThreshold.scaled

\* the j-th index of K
NthOf(K, j) == CHOOSE k \in K : Cardinality({m \in K : m <= k}) = j

BpmsOf(map) == [j \in DOMAIN map |-> map[j].bpm]

\* C13: createBpmMap keeps the first tempo entry, and a later one exactly
\* when its BPM, rounded to the decimal places of the threshold, is at least
\* the threshold away from the BPM of the last entry kept; with the threshold
\* 0.5 the BPMs 120.0, 120.3, 121.0, 125.0 leave 120.0, 121.0, 125.0.
C13_KeepsAgainstLastKept ==
    pc = "mapped" =>
        /\ Len(bpmMap) = Cardinality(KeptIndices)
        /\ \A j \in DOMAIN bpmMap :
               /\ bpmMap[j].bpm = BpmAtPrecision(NthOf(KeptIndices, j))
               /\ bpmMap[j].microsecondsPerQuarterNote =
                      tempoMap[NthOf(KeptIndices, j)].microsecondsPerQuarterNote
        /\ (/\ bpmChangeThreshold = Threshold(1, 5)
            /\ [i \in DOMAIN tempoMap |-> tempoMap[i].microsecondsPerQuarterNote]
                   = <<500000, 498753, 495868, 480000>>)
           => BpmsOf(bpmMap) = <<1200, 1210, 1250>>

\* 120.0, 120.3, 120.5 under the threshold 0.5: 120.3 is dropped, and 120.5
\* is kept for being 0.5 away from 120.0
C13_Witness ==
    /\ pc = "mapped"
    /\ bpmChangeThreshold = Threshold(1, 5)
    /\ Len(tempoMap) = 3
    /\ tempoMap[2].microsecondsPerQuarterNote = 498753
    /\ BpmsOf(bpmMap) = <<1200, 1205>>

\* C14: the BPM map made from a decoded file has a first entry; for a file
\* without a tempo event it is the assumed tempo of 500000 microseconds per
\* quarter note (120 BPM) at tick 0.
C14_BpmMapHasFirstEntry ==
    pc = "mapped" =>
        /\ Len(bpmMap) >= 1
        /\ tempoMap = <<>> =>
               /\ bpmMap[1].microsecondsPerQuarterNote = 500000
               /\ bpmMap[1].second = Num(0)

\* C15: once the tracks of a file are decoded, the tempo map is ordered by
\* non-decreasing tick.
C15_TempoMapOrdered ==
    pc \in {"done", "mapped"} =>
        \A i, j \in DOMAIN tempoMap :
            i < j => tempoMap[i].tick <= tempoMap[j].tick

\* C16: when the first tempo event of an ordered tempo map is at a tick
\* k > 0, getTime charges the ticks before k at the default tempo of 500000
\* microseconds per quarter note, and the event's tempo only from k on.
C16_DefaultTempoBeforeFirst ==
    (/\ tempoMap # <<>>
     /\ TempoMapRead
     /\ Truthy(timeDivision.n)
     /\ tempoMap[1].tick > 0
     /\ \A i \in DOMAIN tempoMap : tempoMap[1].tick <= tempoMap[i].tick)
    => LET k == tempoMap[1].tick
       IN  \A t \in ProbeTicks :
               /\ t <= k => getTime(tempoMap, timeDivision, t)
                                = Num(500000 * t * timeDivision.d)
               /\ (t > k /\ Len(tempoMap) = 1)
                      => getTime(tempoMap, timeDivision, t)
                             = Num((500000 * k
                                    + tempoMap[1].microsecondsPerQuarterNote
                                      * (t - k)) * timeDivision.d)

\* the division field read has its high bit set
FramesMode == timeDivision.n # NaN /\ timeDivision.n >= 32768

\* the ticks of one second in that mode: the high byte of the division is
\* minus the frames per second, the low byte the ticks per frame
TicksPerSecond ==
    (256 - (timeDivision.n \div 256)) * (timeDivision.n % 256)

\* C17: in frames-per-second mode the seconds of an event are its ticks
\* divided by (frames per second * ticks per frame), and the tempo events
\* decoded change no time.
C17_FramesBypassTempo ==
    (FramesMode /\ pc = "track") =>
        /\ trk.seconds =
               Microseconds(trk.ticks * (1000000 \div TicksPerSecond))
        /\ getTime(tempoMap, timeDivision, trk.ticks)
               = getTime(<<>>, timeDivision, trk.ticks)

\* C18: when the constructor has returned, this.notes holds every note
\* decoded, once, in non-decreasing order of time, however the times of the
\* tracks interleave.
C18_NotesSortedByTime ==
    pc \in {"done", "mapped"} =>
        /\ Len(notes) = Len(heap)
        /\ \A i \in DOMAIN heap : \E j \in DOMAIN notes : notes[j] = i
        /\ \A j \in 1..(Len(notes) - 1) :
               NumLeq(heap[notes[j]].time, heap[notes[j + 1]].time)

\* a note at 0.5 s of the first track was decoded before a note at 0 s of
\* the second track, and the sort has put it after
C18_Witness ==
    /\ pc = "done"
    /\ Len(tracks) = 2
    /\ Len(heap) = 2
    /\ heap[1].time = Microseconds(500000)
    /\ heap[2].time = Num(0)
    /\ heap[2].channel = 16
    /\ notes = <<2, 1>>

\* the note at position i of a channel's notes is a note-on that no later
\* note of the channel terminates
Unmatched(ns, i) ==
    /\ IsNoteOn(heap[ns[i]])
    /\ \A j \in DOMAIN ns :
           j > i => \/ IsNoteOn(heap[ns[j]])
                    \/ heap[ns[j]].pitch = NaN
                    \/ heap[ns[j]].pitch # heap[ns[i]].pitch

\* a track with a note-on that stays open, then a track with a note-on and
\* its note-off 480 ticks later
HangingFile ==
    FileOf(MThd, 480,
           <<Item("on", 0, 60), Item("T", 0, 0), Item("on", 0, 60),
             Item("off", 480, 60)>>,
           0)

\* C19: a note-on without a matching note-off keeps its duration unset to
\* the end of the decode; no error is raised, every "MTrk" chunk of the file
\* still becomes a track, and the events and tracks after the note are
\* decoded as usual.
C19_UnmatchedStaysOpen ==
    /\ pc # "threw"
    /\ pc \in {"done", "mapped"} =>
           /\ \A c \in DOMAIN channels :
                  \A i \in DOMAIN channels[c].notes :
                      Unmatched(channels[c].notes, i)
                          => /\ heap[channels[c].notes[i]].durTime = Undef
                             /\ heap[channels[c].notes[i]].durBeats = Undef
           /\ Len(tracks) = MTrkBefore(file, 14, NaN)
           /\ file = HangingFile =>
                  /\ Len(heap) = 3
                  /\ channels[0].notes = <<1>>
                  /\ channels[16].notes = <<2, 3>>
                  /\ heap[2].durTime = Microseconds(500000)

C19_Witness ==
    /\ pc = "done"
    /\ file = HangingFile
    /\ Len(heap) = 3
    /\ Unmatched(channels[0].notes, 1)
    /\ ~IsResolved(heap[1])
    /\ IsResolved(heap[2])

\* C20: the steps of another decode, interleaved in any order, change
\* nothing of what a decode produces: as when it runs alone, each note it
\* makes has the channel index of the track being read, 16 * (tracks before
\* it) + the MIDI channel, and no step fails.
C20_DecodeIsolated ==
    [][/\ pc' # "threw"
       /\ Len(heap') = Len(heap) + 1
              => heap'[Len(heap')].channel \div 16 = Len(tracks') - 1]_vars

\* C21: a decode that cancellation was requested for ends as canceled and
\* its partial result is discarded: the caller is handed no file to work on.
C21_CanceledIsDiscarded ==
    isCanceled => pc \notin {"returned", "mapped"}

\* C22: the header of a decoded result has a division other than 0 and a
\* format of 0, 1 or 2.
C22_HeaderIsValid ==
    pc \in {"done", "mapped"} =>
        /\ timeDivision.n \notin {0, NaN}
        /\ format \in {0, 1, 2}

\* C23: the Track made for the k-th "MTrk" chunk, counted from 0, has the
\* index k.
C23_TrackIndexInFileOrder ==
    \A t \in DOMAIN tracks : tracks[t].index = t - 1

Twice(a) == IF IsNum(a) THEN Num(2 * a.v) ELSE a

\* the division as the header holds it
WholeDivision == [timeDivision EXCEPT !.d = 1]

\* C24: with the half speed flag set the division is halved once, before
\* the first chunk is scanned, and stays so; the seconds and the beats of
\* every event are twice what the whole division gives for the same tick
\* and tempo map, that is, twice what the file yields with the flag clear.
C24_HalfSpeedDoubles ==
    [][(halfSpeed /\ pc # "new") =>
          /\ timeDivision.d = 2
          /\ timeDivision' = timeDivision
          /\ (pc = "track" /\ pc' = "track") =>
                 /\ trk'.seconds =
                        Twice(getTime(tempoMap, WholeDivision, trk'.ticks))
                 /\ \A i \in DOMAIN heap' :
                        i > Len(heap) =>
                            /\ heap'[i].time = trk'.seconds
                            /\ heap'[i].beats = Twice(Num(trk'.ticks))]_vars

\* an event at tick 240 of a file of division 481 read at half speed, at
\* the default tempo: 2 * 240 * 500000 / 481 microseconds
C24_Witness ==
    /\ halfSpeed
    /\ pc = "track"
    /\ timeDivision = [n |-> 481, d |-> 2]
    /\ tempoMap = <<>>
    /\ trk.ticks = 240
    /\ Len(heap) = 1
    /\ heap[1].time = Num(2 * 240 * 500000)

\* where the event loop reads the status of the event at the cursor, and the
\* byte there
StatusPos == trk.chunkOffset + getVarLen(file, trk.chunkOffset)
StatusByte == charCodeAt(file, StatusPos)

IsNoteStatus(status) == status \div 16 \in {8, 9}

LastNote(h) == h[Len(h)]

\* C25: in an iteration of the event loop, a byte with its high bit set at
\* the status position is the status of the event and of the events after it,
\* and the data start behind it; a byte with its high bit clear leaves the
\* status of the previous event in force and is itself the first data byte:
\* of a note event it is the pitch, and the cursor ends two bytes after the
\* status position.
C25_RunningStatus ==
    [][(pc = "track" /\ pc' = "track" /\ StatusByte # NaN) =>
          IF StatusByte >= 128
          THEN /\ trk'.previousStatus = StatusByte
               /\ IsNoteStatus(StatusByte) =>
                      /\ trk'.chunkOffset = StatusPos + 3
                      /\ Len(heap') = Len(heap) + 1
                      /\ LastNote(heap').pitch = charCodeAt(file, StatusPos + 1)
          ELSE /\ trk'.previousStatus = trk.previousStatus
               /\ IsNoteStatus(trk.previousStatus) =>
                      /\ trk'.chunkOffset = StatusPos + 2
                      /\ Len(heap') = Len(heap) + 1
                      /\ LastNote(heap').pitch = StatusByte
                      /\ trk.previousStatus \div 16 = 9 =>
                             LastNote(heap').vel =
                                 charCodeAt(file, StatusPos + 1)]_vars

\* 00 90 3C 64 then 00 3C 64 at the start of the first track: two note-ons
\* of pitch 60, the second under the status of the first
C25_Witness ==
    /\ pc = "track"
    /\ Len(file) >= 29
    /\ SubSeq(file, 23, 29) = <<0, 144, 60, 100, 0, 60, 100>>
    /\ trk.chunkOffset = 29
    /\ trk.previousStatus = 144
    /\ Len(heap) = 2
    /\ heap[2].pitch = 60
    /\ heap[2].vel = 100
    /\ heap[2].channel = 0

\* the event at the cursor ends a note: a note-off, or a note-on of
\* velocity 0
EndsNote(e) ==
    \/ e.statusTop = 8
    \/ e.statusTop = 9 /\ e.b2 = 0

\* what ending the note of a pitch on a channel at a time makes of the
\* notes: neither the status nor the velocity byte of the event is in it
Terminated(e) ==
    addNote(Store, e.seconds, e.beats,
            currentTrack * 16 + (e.status % 16), e.b1, 0)

\* C26: a note-off of any velocity and a note-on of velocity 0 at the same
\* tick, pitch and channel do the same from the same state: a note of
\* velocity 0 is appended, the nearest note-on of the pitch on the channel
\* gets its duration, and the cursor ends 2 bytes after the first data byte.
C26_NoteOffForms ==
    [][(pc = "track" /\ pc' = "track" /\ EndsNote(EventHead)) =>
          /\ heap' = Terminated(EventHead).heap
          /\ notes' = Terminated(EventHead).notes
          /\ channels' = Terminated(EventHead).channels
          /\ noteOffs' = noteOffs + 1
          /\ noteOns' = noteOns
          /\ LastNote(heap').vel = 0
          /\ trk'.chunkOffset = EventHead.chunkOffset + 2
          /\ tracks' = Terminated(EventHead).tracks
          /\ UNCHANGED <<tempoMap, timeSignatureMap>>]_vars

\* 00 90 3C 64 then 81 70 80 3C 40: the note-off of velocity 64 at tick 240
\* is stored with velocity 0 and gives the note-on 0.25 s
C26_Witness ==
    /\ pc = "track"
    /\ Len(file) >= 31
    /\ SubSeq(file, 23, 31) = <<0, 144, 60, 100, 129, 112, 128, 60, 64>>
    /\ trk.chunkOffset = 31
    /\ Len(heap) = 2
    /\ heap[2].vel = 0
    /\ heap[1].durTime = Num(240 * 500000)

\* C27: an event of status nibble 0xA, 0xB or 0xE moves the cursor 2 bytes
\* past its first data byte, one of nibble 0xC or 0xD 1 byte, and neither
\* changes the notes, the note list of any channel, the tempo map or the
\* time-signature map.
C27_ChannelEventsSkipped ==
    [][(pc = "track" /\ pc' = "track") =>
          /\ EventHead.statusTop \in {10, 11, 14} =>
                 /\ trk'.chunkOffset = EventHead.chunkOffset + 2
                 /\ UNCHANGED <<heap, notes, channels, tempoMap,
                                timeSignatureMap>>
          /\ EventHead.statusTop \in {12, 13} =>
                 /\ trk'.chunkOffset = EventHead.chunkOffset + 1
                 /\ UNCHANGED <<heap, notes, channels, tempoMap,
                                timeSignatureMap>>]_vars

\* 00 C0 05, 00 B0 07 64, then 00 90 3C 64: the note-on after the program
\* change and the controller is read from its place
C27_Witness ==
    /\ pc = "track"
    /\ Len(file) >= 33
    /\ SubSeq(file, 23, 33) = <<0, 192, 5, 0, 176, 7, 100, 0, 144, 60, 100>>
    /\ trk.chunkOffset = 33
    /\ trk.previousStatus = 144
    /\ Len(heap) = 1
    /\ heap[1].pitch = 60
    /\ heap[1].vel = 100

\* C28: an event whose status byte is 0xF0 or 0xF7 moves the cursor from the
\* length that follows the status past the bytes of the length and the L
\* bytes it counts, and adds no note, tempo or time signature.
C28_SysExSkipped ==
    [][(pc = "track" /\ StatusByte \in {240, 247}) =>
          /\ pc' = "track"
          /\ trk'.chunkOffset =
                 StatusPos + 1 + getVarLen(file, StatusPos + 1)
                     + getVarVal(file, StatusPos + 1)
          /\ UNCHANGED <<heap, notes, tempoMap, timeSignatureMap>>]_vars

\* the sub-types the switch on b1 has a case for
RecognizedMeta == {3, 4, 32, 81, 84, 88}

\* C29: an event whose status byte is 0xFF, then a sub-type byte, a length L
\* and L bytes, leaves the cursor right after the L bytes, whatever the
\* sub-type; of a sub-type the decoder has no case for, it changes no note,
\* tempo, time signature, track or channel.
C29_MetaSkipped ==
    [][(pc = "track" /\ StatusByte = 255) =>
          /\ pc' = "track"
          /\ trk'.chunkOffset =
                 StatusPos + 2 + getVarLen(file, StatusPos + 2)
                     + getVarVal(file, StatusPos + 2)
          /\ charCodeAt(file, StatusPos + 1) \notin RecognizedMeta =>
                 UNCHANGED <<heap, notes, channels, tracks, tempoMap,
                             microsecondsPerQuarterNote, timeSignatureMap,
                             timeSignature>>]_vars

\* 00 FF 01 02 48 69, then 00 90 3C 64: the text event stores nothing and
\* the note-on after it is read from its place
C29_Witness ==
    /\ pc = "track"
    /\ Len(file) >= 32
    /\ SubSeq(file, 23, 32) = <<0, 255, 1, 2, 72, 105, 0, 144, 60, 100>>
    /\ trk.chunkOffset = 32
    /\ Len(heap) = 1
    /\ heap[1].pitch = 60
    /\ tempoMap = <<>>
    /\ ~tracks[1].hasName

\* the cursor is on the first event of the chunk
AtChunkStart == trk.chunkOffset = offset + 8

\* C30: when an MTrk chunk is entered the running status, the tick counter,
\* the seconds and the channel prefix are 0, whatever the track before left
\* in them; a first event of delta time 0 leaves the ticks and the seconds
\* at 0, and the note it makes has time 0 and beats 0.
C30_TrackStartsFresh ==
    [][/\ (pc = "scan" /\ pc' = "track") =>
              /\ trk'.previousStatus = 0
              /\ trk'.ticks = 0
              /\ trk'.seconds = Num(0)
              /\ trk'.midiChannelPrefix = 0
       /\ (/\ pc = "track" /\ pc' = "track"
           /\ AtChunkStart
           /\ getVarVal(file, trk.chunkOffset) = 0) =>
              /\ trk'.ticks = 0
              /\ trk'.seconds = Num(0)
              /\ \A i \in DOMAIN heap' :
                     i > Len(heap) =>
                         /\ heap'[i].time = Num(0)
                         /\ heap'[i].beats = Num(0)]_vars

\* the first track ended at tick 480 under the status 0x80, and the note-on
\* that opens the second track at delta 0 has time 0 and beats 0
C30_Witness ==
    /\ pc = "track"
    /\ Len(tracks) = 2
    /\ Len(heap) = 2
    /\ heap[1].beats = Num(480)
    /\ heap[1].vel = 0
    /\ heap[2].time = Num(0)
    /\ heap[2].beats = Num(0)
    /\ heap[2].channel = 16
    /\ trk.ticks = 0
    /\ trk.previousStatus = 144

\* the division is a number of ticks per beat
TicksPerBeatMode == timeDivision.n \notin {NaN, Undefined} /\ timeDivision.n < 32768

\* C31: in ticks-per-beat mode a note decoded at a tick other than 0 has
\* beats = ticks / ticksPerBeat, whatever meta events came before it, tempo
\* events of any value included.
C31_BeatsFromTicks ==
    [][(/\ pc = "track" /\ pc' = "track"
        /\ TicksPerBeatMode /\ ~halfSpeed
        /\ ticksPerBeat = timeDivision.n
        /\ trk'.ticks # 0) =>
          \A i \in DOMAIN heap' :
              i > Len(heap) => heap'[i].beats = Num(trk'.ticks)]_vars

\* the notes the step has changed
Modified == {i \in DOMAIN heap : heap'[i] # heap[i]}

\* C32: the step of a note-off, or of a note-on of velocity 0, changes at
\* most one of the notes there were; the note it changes is a note-on of the
\* pitch and the channel of the event, and only its duration changes.
C32_TerminatorResolvesOne ==
    [][(pc = "track" /\ pc' = "track" /\ EndsNote(EventHead)) =>
          /\ Cardinality(Modified) <= 1
          /\ \A i \in Modified :
                 /\ IsNoteOn(heap[i])
                 /\ heap[i].pitch = EventHead.b1
                 /\ heap[i].channel = EventHead.channel
                 /\ heap'[i] = [heap[i] EXCEPT
                                   !.durTime = heap'[i].durTime,
                                   !.durBeats = heap'[i].durBeats]]_vars

\* note-ons of the pitches 60 and 62 on channel 0 and of 60 on channel 1,
\* then the note-off of 60 on channel 0: only the first note has a duration
C32_Witness ==
    /\ pc = "track"
    /\ Len(heap) = 4
    /\ heap[1].pitch = 60 /\ heap[1].channel = 0 /\ IsResolved(heap[1])
    /\ heap[2].pitch = 62 /\ IsNoteOn(heap[2]) /\ ~IsResolved(heap[2])
    /\ heap[3].channel = 1 /\ IsNoteOn(heap[3]) /\ ~IsResolved(heap[3])
    /\ heap[4].vel = 0 /\ heap[4].pitch = 60 /\ heap[4].channel = 0

\* NaN, or more than x by at least n
GrowsBy(x, y, n) == y = NaN \/ y >= x + n

\* how many bytes a loop "while (x < limit)" has before it
Remaining(x, limit) == IF OffLess(x, limit) THEN limit - x ELSE 0

\* what is left of the run: the phase, the bytes left to the chunk loop,
\* whether the chunk at the offset is still to be entered, and the bytes left
\* to the event loop; ordered as the tuples are, from the left
Variant ==
    <<CASE pc = "new" -> 3
        [] pc \in {"scan", "track"} -> 2
        [] pc \in {"done", "returned"} -> 1
        [] OTHER -> 0,
      Remaining(offset, Len(file)),
      IF pc = "track" THEN 0 ELSE 1,
      IF pc = "track" THEN Remaining(trk.chunkOffset, trk.chunkEnd) ELSE 0>>

RECURSIVE LexLess(_, _, _)
LexLess(a, b, i) ==
    /\ i <= Len(a)
    /\ \/ a[i] < b[i]
       \/ a[i] = b[i] /\ LexLess(a, b, i + 1)

\* the test of line 146 holds: the event loop runs one more iteration
InEventLoop == pc = "track" /\ OffLess(trk.chunkOffset, trk.chunkEnd)

\* C33: the decode of every file ends. Each chunk moves the scan offset on
\* by 8 or more (or makes it NaN, which ends the scan), each event moves the
\* cursor of the track on (or makes it NaN, which ends the track), and
\* getTime has a value for every tick and tempo map met; every step makes
\* what is left of the run smaller, and a run that has not ended can take a
\* step.
C33_DecodeTerminates ==
    [][/\ (pc = "scan" /\ pc' = "scan") => GrowsBy(offset, offset', 8)
       /\ (pc = "track" /\ pc' = "scan") => GrowsBy(offset, offset', 8)
       /\ (pc = "track" /\ pc' = "track") =>
              /\ GrowsBy(trk.chunkOffset, trk'.chunkOffset, 1)
              /\ getTime(tempoMap', timeDivision, trk'.ticks).k
                     \in {"num", "nan", "inf"}
       /\ LexLess(Variant', Variant, 1)
       /\ pc' \notin {"mapped", "threw"} =>
              (InEventLoop \/ ENABLED <<Next>>_vars)']_vars

\* a file cut short, with a tempo at tick 480 in one track and a tempo at
\* tick 0 in the next, has been decoded to the end
C33_Witness ==
    /\ pc = "mapped"
    /\ offset # NaN
    /\ offset > Len(file)
    /\ Len(tempoMap) = 2
    /\ tempoMap[1].tick > tempoMap[2].tick

\* the tick a note was decoded at, read back from its beats (ticks over the
\* division, the division being whole)
TickOf(note) == note.beats.v

\* C34: when the decode has ended, the time of every note is getTime of the
\* note's tick over the tempo map as it then is, whichever track holds the
\* tempo events and whether they were decoded before the note or after it.
C34_TimesAgreeWithFinishedMap ==
    (pc \in {"done", "mapped"} /\ timeDivision.d = 1) =>
        \A i \in DOMAIN heap :
            IsNum(heap[i].beats) =>
                heap[i].time = getTime(tempoMap, timeDivision, TickOf(heap[i]))

\* C35: whenever a step makes a channel, the track at floor(index / 16) is
\* allocated and is the track being decoded, and no step fails for want of
\* it: so for an instrument name after a channel prefix of any byte.
C35_ChannelTrackAllocated ==
    [][/\ pc' # "threw"
       /\ \A c \in DOMAIN channels' :
              c \notin DOMAIN channels =>
                  /\ TrackIndexOf(c) = Len(tracks') - 1
                  /\ TrackIndexOf(c) = currentTrack]_vars


\* C36: getLatestMidiNote on the list of the files read returns
\* trailingDuration plus the greatest end (time + durTime) of the last note
\* with a duration of each file.
EndOfFile(midiFile) ==
    LET ns == midiFile.notes
        found == {k \in 1..Len(ns) : ns[k].durTime.k # "undef"}
        last == CHOOSE k \in found : \A l \in found : l <= k
    IN  IF found = {} THEN Num(0) ELSE NumAdd(ns[last].time, ns[last].durTime)

C36_LatestOfAllFiles ==
    cv.pc = "bpm" =>
        /\ \A i \in DOMAIN parsedMidiFiles :
               ~NumLess(latestMidiNote,
                        NumAdd(EndOfFile(parsedMidiFiles[i]), trailingDuration))
        /\ \/ latestMidiNote = trailingDuration
           \/ \E i \in DOMAIN parsedMidiFiles :
                  latestMidiNote =
                      NumAdd(EndOfFile(parsedMidiFiles[i]), trailingDuration)


\* C37: once isCanceled is set during a run of createVisualizer, the run adds
\* no composition and no layer to the project.
RunInProgress == cv.pc \notin {"idle", "stopped", "threw"}

C37_CanceledAddsNothing ==
    [][(RunInProgress /\ isCanceled) => project' = project]_vars


\* C38: every run of createVisualizer that has called pb.start() comes to
\* pb.stop(), which leaves the button as "Create" with createVisualizer as
\* its handler; until then the button is "Cancel" and its handler only sets
\* isCanceled.
C38_StartedRunStops ==
    /\ (createCancelBtn = CancelButton)
           ~> (cv.pc = "stopped" /\ createCancelBtn = CreateButton)
    /\ [](cv.pc \notin {"idle", "stopped"} => createCancelBtn = CancelButton)


\* C39: getTempo(tick) returns the microsecondsPerQuarterNote of the last
\* entry of the tempo map whose tick is <= the argument, and 500000 when the
\* tempo map is empty.
EntriesUpTo(map, tick) == {i \in DOMAIN map : map[i].tick <= tick}

C39_TempoActiveAtTick ==
    tempoAt.called =>
        /\ tempoMap = <<>> => tempoAt.result = 500000
        /\ EntriesUpTo(tempoMap, tempoAt.tick) # {} =>
               LET last == CHOOSE i \in EntriesUpTo(tempoMap, tempoAt.tick) :
                               \A j \in EntriesUpTo(tempoMap, tempoAt.tick) :
                                   j <= i
               IN  tempoAt.result = tempoMap[last].microsecondsPerQuarterNote

=============================================================================
